---- MODULE Spec2Model ----
(***************************************************************************)
(* WentFramework: the runtime OpenAPI (Swagger) synthesis of               *)
(* internal/swagger, over a gorilla/mux router and the reflected models.   *)
(*                                                                         *)
(* Strings that the code inspects (paths, struct tags) are sequences of    *)
(* tokens; the tokens are chosen so that no searched pattern can straddle  *)
(* a token boundary, hence strings.Contains / TrimPrefix / Split on the    *)
(* token sequence agree with the same call on the joined string.           *)
(* A Go pointer or interface value is a sequence: <<>> is nil, <<v>> is a  *)
(* value.  *Operation is an index into the operations allocated by the     *)
(* call (0 is nil).                                                        *)
(***************************************************************************)
EXTENDS Integers, Sequences, FiniteSets, TLC

VARIABLES
    pc,         \* "setup" while SetupRoutes registers routes, "ready" once it returned
    info,       \* the SwaggerInfo the process builds from its environment
    router,     \* the mux router: its routes in Walk order
    routeInfos, \* the []RouteInfo the last GenerateSwagger extracted
    spec,       \* *SwaggerSpec returned by the last GenerateSwagger: <<>> or <<doc>>
    heap,       \* the Operations allocated by that call; a *Operation is an index
    err,        \* the error returned by that call ("nil" when none)
    calls,      \* how many times GenerateSwagger has been called
    model,      \* reflect.Type handed to generateModelSchema: <<>> or <<t>>
    schema,     \* Schema it returned: <<>> or <<s>>
    docsPc,     \* where GenerateSwaggerDocs stands
    fatal,      \* TRUE when the command ends a failure with log.Fatalf, FALSE with return
    serverHost, \* SERVER_HOST of the command's environment
    file,       \* docs/swagger.json: <<>> when absent, else <<[data, complete]>>
    saveErr,    \* the error SaveSwaggerSpec returned ("nil" when none)
    stdout,     \* what the command printed or logged, in order
    requests,   \* the /swagger.json requests being served: where each stands in GenerateSwagger
    docs,       \* the SwaggerSpec objects allocated by the requests, by address
    responses,  \* the body written to each request: <<>> or <<json>>
    exchange,   \* the request the logging middleware serves and what its handler answered: <<>> or <<[...]>>
    httpLog,    \* the entries the middleware handed to the logger, in order
    logger,     \* the Logger: level, format, storage, writer (<<>> when nil)
    dbHandle,   \* database.DB: "nil" or "open"
    logsTable,  \* the rows of the logs table
    out,        \* what was written to stdout, to stderr and to the log file
    logCalls,   \* the calls of Logger.log so far, each with what the database answered
    middlewares,\* the middleware functions handed to MiddlewareChain, in argument order
    handler,    \* the http.Handler the chain returned, outermost first: <<>> before it is built
    depth,      \* how many handlers of it are on the call stack
    phase,      \* "build", "call" while handlers are entered, "return" while they return, "done"
    trace,      \* the handlers entered and returned from, in order
    httpReq,    \* the request the chain serves
    httpResp,   \* the response so far: status 0 until WriteHeader
    files,      \* the files under app/: path -> content
    templatesOk,\* the template files that template.ParseFiles can parse
    panics,     \* TRUE for the createFileFromTemplate that panics on an error, FALSE for the one that reports it and returns
    modelName,  \* the argument of MakeModel
    makePc,     \* where MakeModel stands
    makes,      \* how many times MakeModel has been called
    makeOut     \* what MakeModel printed, in order

swaggerVars == <<pc, info, router, routeInfos, spec, heap, err, calls>>
schemaVars == <<model, schema>>
docsVars == <<docsPc, fatal, serverHost, file, saveErr, stdout>>
serveVars == <<requests, docs, responses>>
logVars == <<exchange, httpLog>>
loggerVars == <<logger, dbHandle, logsTable, out, logCalls>>
chainVars == <<middlewares, handler, depth, phase, trace, httpReq, httpResp>>
makeVars == <<files, templatesOk, panics, modelName, makePc, makes, makeOut>>
restVars == <<docsVars, serveVars, logVars, loggerVars, chainVars, makeVars>>
vars == <<swaggerVars, schemaVars, restVars>>

(***************************************************************************)
(* Bounds                                                                  *)
(***************************************************************************)
MaxRoutes == 2
MaxCalls == 2
MaxFields == 2
MaxRecords == 3
MaxRequests == 2
MaxHeaders == 2
MaxLogCalls == 3
MaxChain == 3
MaxMakes == 2

(***************************************************************************)
(* strings                                                                 *)
(***************************************************************************)
\* strings.HasPrefix on token sequences
HasPrefix(s, prefix) ==
    /\ Len(prefix) <= Len(s)
    /\ SubSeq(s, 1, Len(prefix)) = prefix

\* strings.Contains on token sequences
Contains(s, substr) ==
    \E i \in 0..(Len(s) - Len(substr)) : SubSeq(s, i + 1, i + Len(substr)) = substr

\* strings.TrimPrefix
TrimPrefix(s, prefix) ==
    IF HasPrefix(s, prefix) THEN SubSeq(s, Len(prefix) + 1, Len(s)) ELSE s

\* strings.ReplaceAll for a one-token pattern
ReplaceAll(s, old, new) ==
    [i \in 1..Len(s) |-> IF s[i] = old THEN new ELSE s[i]]

\* index of the first token equal to sep, 0 when there is none
IndexOf(s, sep) ==
    IF \E i \in 1..Len(s) : s[i] = sep
    THEN CHOOSE i \in 1..Len(s) : s[i] = sep /\ \A j \in 1..(i - 1) : s[j] # sep
    ELSE 0

\* strings.Split(s, sep)[0]
SplitFirst(s, sep) ==
    IF IndexOf(s, sep) = 0 THEN s ELSE SubSeq(s, 1, IndexOf(s, sep) - 1)

\* the string a token sequence spells
RECURSIVE Join(_)
Join(s) == IF s = <<>> THEN "" ELSE Head(s) \o Join(Tail(s))

LowerTable ==
    [n \in {"ID", "Name", "Email", "Note", "CreatedAt", "UpdatedAt", "Authorization",
             "SET-COOKIE", "Set-Cookie", "X-Api-Key", "X-Auth-Token", "Content-Type",
             "Accept", "User", "Post"} |->
        CASE n = "ID" -> "id"
          [] n = "Name" -> "name"
          [] n = "Email" -> "email"
          [] n = "Note" -> "note"
          [] n = "CreatedAt" -> "createdat"
          [] n = "UpdatedAt" -> "updatedat"
          [] n = "Authorization" -> "authorization"
          [] n = "SET-COOKIE" -> "set-cookie"
          [] n = "Set-Cookie" -> "set-cookie"
          [] n = "X-Api-Key" -> "x-api-key"
          [] n = "X-Auth-Token" -> "x-auth-token"
          [] n = "Content-Type" -> "content-type"
          [] n = "Accept" -> "accept"
          [] n = "User" -> "user"
          [] n = "Post" -> "post"]

\* strings.ToLower
ToLower(s) == IF s \in DOMAIN LowerTable THEN LowerTable[s] ELSE s

(***************************************************************************)
(* reflect.Type                                                            *)
(***************************************************************************)
IntKinds == {"int", "int8", "int16", "int32", "int64"}
\* the unsigned case arm listing the 64-bit kind alone
UintKindsOnly64 == {"uint64"}

UintKinds == {"uint", "uint8", "uint16", "uint32", "uint64"}
FloatKinds == {"float32", "float64"}

Prim(k) == [Kind |-> k, Name |-> k, Fields |-> <<>>, Elem |-> <<>>]
StructOf(name, fields) == [Kind |-> "struct", Name |-> name, Fields |-> fields, Elem |-> <<>>]
SliceOf(t) == [Kind |-> "slice", Name |-> "[]" \o t.Name, Fields |-> <<>>, Elem |-> <<t>>]
PtrTo(t) == [Kind |-> "ptr", Name |-> "*" \o t.Name, Fields |-> <<>>, Elem |-> <<t>>]
Field(name, tag, t) == [Name |-> name, Tag |-> tag, Type |-> t]

\* time.Time: three unexported fields, no struct tags
TimeType ==
    StructOf("time.Time",
        << Field("wall", <<>>, Prim("uint64")),
           Field("ext", <<>>, Prim("int64")),
           Field("loc", <<>>, PtrTo(StructOf("time.Location", <<>>))) >>)

\* models.User
UserType ==
    StructOf("models.User",
        << Field("ID", <<"id">>, Prim("uint")),
           Field("Name", <<"name">>, Prim("string")),
           Field("Email", <<"email">>, Prim("string")),
           Field("CreatedAt", <<"created_at">>, TimeType),
           Field("UpdatedAt", <<"updated_at">>, TimeType) >>)

(***************************************************************************)
(* Schema                                                                  *)
(***************************************************************************)
\* interface{} values carried by Example and AdditionalProperties
Nil == [t |-> "nil", v |-> ""]
IntVal(n) == [t |-> "int", v |-> ToString(n)]
StrVal(str) == [t |-> "string", v |-> str]
BoolVal(b) == [t |-> "bool", v |-> IF b THEN "true" ELSE "false"]

\* Schema{} with every field at its zero value
Schema ==
    [Type |-> "", Format |-> "", Properties |-> <<>>, Required |-> <<>>,
     Items |-> <<>>, Ref |-> <<>>, AdditionalProperties |-> Nil, Example |-> Nil]

RefPrefix == "#/components/schemas/"

\* Schema{Ref: "#/components/schemas/<name>"}
RefTo(name) == [Schema EXCEPT !.Ref = <<RefPrefix, name>>]

\* Schema{Type: t, Example: e}
TypedExample(t, e) == [Schema EXCEPT !.Type = t, !.Example = e]

TimestampLiteral == "2025-07-31T15:42:18.792477+03:00"

\* generateExample: the fallback on t.Kind()
exampleByKind(t) ==
    CASE t.Kind = "string" -> StrVal("example string")
      [] t.Kind \in {"int", "int64", "uint", "uint64"} -> IntVal(1)
      [] t.Kind = "bool" -> BoolVal(TRUE)
      [] OTHER -> Nil

generateExample(fieldName, t) ==
    LET n == ToLower(fieldName) IN
    CASE n = "id" -> IntVal(1)
      [] n = "name" -> StrVal("John Doe")
      [] n = "email" -> StrVal("john@example.com")
      [] n \in {"created_at", "updated_at"} -> StrVal(TimestampLiteral)
      [] OTHER -> exampleByKind(t)

\* a test that leaves out untagged fields only
skipFieldUntaggedOnly(jsonTag) == jsonTag = <<>>

\* jsonTag == "" || jsonTag == "-": the field is left out
skipField(jsonTag) == jsonTag = <<>> \/ jsonTag = <<"-">>

\* the wire name: the tag's first segment, else the lower-cased identifier
jsonNameOf(field) ==
    LET jsonName == Join(SplitFirst(field.Tag, ","))
    IN  IF jsonName = "" THEN ToLower(field.Name) ELSE jsonName

\* !strings.Contains(jsonTag, "omitempty")
isRequired(jsonTag) == ~Contains(jsonTag, <<"omitempty">>)

\* a test that never recognises time.Time
isTimeTypeNever(t) == FALSE

\* t.String() == "time.Time"
isTimeType(t) == t.Name = "time.Time"

\* t.NumField() on a type that is not a struct panics; the panic unwinds
\* every caller, so it stands for the result of the whole derivation
Panic == [Schema EXCEPT !.Type = "panic: reflect: NumField of non-struct type"]

RECURSIVE generateModelSchema(_)
RECURSIVE generateFieldSchema(_)
RECURSIVE modelSchemaFields(_, _, _)

\* the loop over t.Field(i) of generateModelSchema, from field i on
modelSchemaFields(t, i, acc) ==
    IF i > Len(t.Fields) THEN acc
    ELSE LET field == t.Fields[i]
             jsonTag == field.Tag
         IN  IF skipField(jsonTag) THEN modelSchemaFields(t, i + 1, acc)
             ELSE LET jsonName == jsonNameOf(field)
                      derived == generateFieldSchema(field.Type)
                      example == generateExample(jsonName, field.Type)
                      fieldSchema == IF example # Nil
                                     THEN [derived EXCEPT !.Example = example]
                                     ELSE derived
                      next == [acc EXCEPT
                                  !.Properties = (jsonName :> fieldSchema) @@ @,
                                  !.Required = IF isRequired(jsonTag)
                                               THEN Append(@, jsonName) ELSE @]
                  IN  IF derived = Panic THEN Panic
                      ELSE modelSchemaFields(t, i + 1, next)

generateModelSchema(t) ==
    LET st == IF t.Kind = "ptr" THEN t.Elem[1] ELSE t
    IN  IF st.Kind # "struct" THEN Panic
        ELSE modelSchemaFields(st, 1, [Schema EXCEPT !.Type = "object"])

\* a switch whose default arm reflects on the type as on a struct
generateFieldSchemaNoDefault(t) ==
    CASE t.Kind = "string" -> [Schema EXCEPT !.Type = "string"]
      [] t.Kind \in IntKinds -> [Schema EXCEPT !.Type = "integer"]
      [] t.Kind \in UintKinds -> [Schema EXCEPT !.Type = "integer", !.Format = "int64"]
      [] t.Kind \in FloatKinds -> [Schema EXCEPT !.Type = "number"]
      [] t.Kind = "bool" -> [Schema EXCEPT !.Type = "boolean"]
      [] t.Kind = "slice" ->
            [Schema EXCEPT !.Type = "array",
                           !.Items = <<[Schema EXCEPT !.Type = "string"]>>]
      [] t.Kind = "struct" /\ isTimeType(t) ->
            [Schema EXCEPT !.Type = "string", !.Format = "date-time"]
      [] OTHER -> generateModelSchema(t)

generateFieldSchema(t) ==
    CASE t.Kind = "string" -> [Schema EXCEPT !.Type = "string"]
      [] t.Kind \in IntKinds -> [Schema EXCEPT !.Type = "integer"]
      [] t.Kind \in UintKinds -> [Schema EXCEPT !.Type = "integer", !.Format = "int64"]
      [] t.Kind \in FloatKinds -> [Schema EXCEPT !.Type = "number"]
      [] t.Kind = "bool" -> [Schema EXCEPT !.Type = "boolean"]
      [] t.Kind = "slice" ->
            [Schema EXCEPT !.Type = "array",
                           !.Items = <<[Schema EXCEPT !.Type = "string"]>>]
      [] t.Kind = "struct" ->
            IF isTimeType(t)
            THEN [Schema EXCEPT !.Type = "string", !.Format = "date-time"]
            ELSE generateModelSchema(t)
      [] OTHER -> [Schema EXCEPT !.Type = "string"]

(***************************************************************************)
(* Routes                                                                  *)
(***************************************************************************)
ApiPrefix == <<"/", "api">>
UsersPath == <<"/", "api", "/", "users">>
UserIdPath == <<"/", "api", "/", "users", "/", "{id}">>
HealthPath == <<"/", "api", "/", "health">>
ItemIdPath == <<"/", "api", "/", "items", "/", "{id}">>
SuperusersPath == <<"/", "api", "/", "super", "users">>

UserSettingsPath == <<"/", "api", "/", "users", "ettings">>
UnhealthyPath == <<"/", "api", "/", "un", "health", "y">>
UsersHealthPath == <<"/", "api", "/", "users", "/", "health">>
UserPostsPath == <<"/", "api", "/", "users", "/", "{id}", "/", "posts">>

\* path templates of further GET-only routes
OtherPaths == {UserSettingsPath, UnhealthyPath, UsersHealthPath, UserPostsPath}

\* path templates given to HandleFunc
Paths == {UsersPath, UserIdPath, HealthPath, ItemIdPath, SuperusersPath}

\* HTTP methods given to Route.Methods
Methods == {"GET", "POST", "PUT", "DELETE", "PATCH"}

\* the SwaggerInfo generateSwaggerSpec builds for SERVER_HOST:SERVER_PORT
SwaggerInfo(host) ==
    [Version |-> "1.0.0", Title |-> "WentFramework API",
     Description |-> "Auto-generated API documentation for WentFramework",
     Host |-> host, BasePath |-> "/api"]

DefaultInfo == SwaggerInfo("localhost:3000")

\* SwaggerInfo values of the environments considered
Infos == {DefaultInfo, SwaggerInfo("api.example.com:8080")}

\* a mux.Route: tpl is <<>> when GetPathTemplate fails, methods is <<>> when
\* GetMethods fails
Route(tpl, methods) == [tpl |-> tpl, methods |-> methods]

extractHandlerName(path, method) == method \o Join(ReplaceAll(path, "/", "_"))

\* a classifier that tests for the health check first
extractTagsHealthFirst(path) ==
    IF Contains(path, <<"/", "health">>) THEN <<"Health">>
    ELSE IF Contains(path, <<"/", "users">>) THEN <<"Users">>
    ELSE <<"API">>

extractTags(path) ==
    IF Contains(path, <<"/", "users">>) THEN <<"Users">>
    ELSE IF Contains(path, <<"/", "health">>) THEN <<"Health">>
    ELSE <<"API">>

RouteInfo(method, path) ==
    [Method |-> method, Path |-> path,
     HandlerName |-> extractHandlerName(path, method), Tags |-> extractTags(path)]

\* a callback that records the first method of a route only
walkRouteFirstMethod(route) ==
    IF route.tpl = <<>> THEN <<>>
    ELSE IF route.methods = <<>> THEN <<>>
    ELSE <<RouteInfo(route.methods[1], route.tpl[1])>>

\* a callback that records a route without methods under the method ANY
walkRouteMethodless(route) ==
    IF route.tpl = <<>> THEN <<>>
    ELSE IF route.methods = <<>> THEN <<RouteInfo("ANY", route.tpl[1])>>
    ELSE [i \in 1..Len(route.methods) |-> RouteInfo(route.methods[i], route.tpl[1])]

\* the Walk callback of extractRoutes: the records appended for one route
walkRoute(route) ==
    IF route.tpl = <<>> THEN <<>>
    ELSE IF route.methods = <<>> THEN <<>>
    ELSE [i \in 1..Len(route.methods) |-> RouteInfo(route.methods[i], route.tpl[1])]

RECURSIVE extractRoutesFrom(_, _)
extractRoutesFrom(r, i) ==
    IF i > Len(r) THEN <<>> ELSE walkRoute(r[i]) \o extractRoutesFrom(r, i + 1)

extractRoutes(r) == extractRoutesFrom(r, 1)

(***************************************************************************)
(* Operation builder                                                       *)
(***************************************************************************)
hasIdParam(path) == Contains(path, <<"{id}">>)

\* a fallback that keeps the /api prefix
generateSummaryKeepPrefix(method, path) ==
    LET cleanPath == TrimPrefix(path, ApiPrefix) IN
    CASE path = HealthPath -> "Health check"
      [] method = "GET" /\ cleanPath = <<"/", "users">> -> "Get all users"
      [] method = "GET" /\ Contains(cleanPath, <<"/", "users", "/", "{id}">>) -> "Get user by ID"
      [] method = "POST" /\ cleanPath = <<"/", "users">> -> "Create new user"
      [] method = "PUT" /\ Contains(cleanPath, <<"/", "users", "/", "{id}">>) -> "Update user"
      [] method = "DELETE" /\ Contains(cleanPath, <<"/", "users", "/", "{id}">>) -> "Delete user"
      [] OTHER -> method \o " " \o Join(path)

generateSummary(method, path) ==
    LET cleanPath == TrimPrefix(path, ApiPrefix) IN
    CASE path = HealthPath -> "Health check"
      [] method = "GET" /\ cleanPath = <<"/", "users">> -> "Get all users"
      [] method = "GET" /\ Contains(cleanPath, <<"/", "users", "/", "{id}">>) -> "Get user by ID"
      [] method = "POST" /\ cleanPath = <<"/", "users">> -> "Create new user"
      [] method = "PUT" /\ Contains(cleanPath, <<"/", "users", "/", "{id}">>) -> "Update user"
      [] method = "DELETE" /\ Contains(cleanPath, <<"/", "users", "/", "{id}">>) -> "Delete user"
      [] OTHER -> method \o " " \o Join(cleanPath)

\* map[string]MediaType{"application/json": {Schema: s}}
JSONContent(s) == ("application/json" :> [Schema |-> s])

Response(description, s) == [Description |-> description, Content |-> JSONContent(s)]

healthResponses ==
    ("200" :> Response("Health check successful",
        [Schema EXCEPT
            !.Type = "object",
            !.Properties = ("status" :> TypedExample("string", StrVal("healthy")))
                        @@ ("message" :> TypedExample("string", StrVal("Server is running")))]))

\* a switch whose POST arm answers 200
standardResponsesPost200(method, path) ==
    CASE method = "GET" ->
            IF hasIdParam(path)
            THEN ("200" :> Response("Resource retrieved successfully", RefTo("Response")))
              @@ ("404" :> Response("Resource not found", RefTo("ErrorResponse")))
            ELSE ("200" :> Response("Resources retrieved successfully", RefTo("Response")))
      [] method = "POST" ->
            ("200" :> Response("Resource created successfully", RefTo("Response")))
      [] method = "PUT" ->
            ("200" :> Response("Resource updated successfully", RefTo("Response")))
      [] method = "DELETE" ->
            ("200" :> Response("Resource deleted successfully", RefTo("Response")))
      [] OTHER -> <<>>

\* the switch on method of generateResponses
standardResponses(method, path) ==
    CASE method = "GET" ->
            IF hasIdParam(path)
            THEN ("200" :> Response("Resource retrieved successfully", RefTo("Response")))
              @@ ("404" :> Response("Resource not found", RefTo("ErrorResponse")))
            ELSE ("200" :> Response("Resources retrieved successfully", RefTo("Response")))
      [] method = "POST" ->
            ("201" :> Response("Resource created successfully", RefTo("Response")))
      [] method = "PUT" ->
            ("200" :> Response("Resource updated successfully", RefTo("Response")))
      [] method = "DELETE" ->
            ("200" :> Response("Resource deleted successfully", RefTo("Response")))
      [] OTHER -> <<>>

\* common error responses without the 500
errorResponsesNo500 ==
    ("400" :> Response("Bad request", RefTo("ErrorResponse")))

\* the common error responses of generateResponses
errorResponses ==
    ("400" :> Response("Bad request", RefTo("ErrorResponse")))
 @@ ("500" :> Response("Internal server error", RefTo("ErrorResponse")))

\* generateResponses without the early return for the health check
generateResponsesNoHealth(method, path) ==
    errorResponses @@ standardResponses(method, path)

generateResponses(method, path) ==
    IF path = HealthPath THEN healthResponses
    ELSE errorResponses @@ standardResponses(method, path)

generateRequestBody(path) ==
    IF Contains(path, <<"/", "users">>)
    THEN << [Description |-> "User data", Required |-> TRUE,
             Content |-> JSONContent(
                [Schema EXCEPT
                    !.Type = "object",
                    !.Properties = ("name" :> TypedExample("string", StrVal("John Doe")))
                                @@ ("email" :> TypedExample("string", StrVal("john@example.com"))),
                    !.Required = <<"name", "email">>])] >>
    ELSE <<>>

\* the id parameter placed in the query
idParameterInQuery ==
    [Name |-> "id", In |-> "query", Description |-> "Resource ID", Required |-> TRUE,
     Schema |-> [Schema EXCEPT !.Type = "integer"]]

idParameter ==
    [Name |-> "id", In |-> "path", Description |-> "Resource ID", Required |-> TRUE,
     Schema |-> [Schema EXCEPT !.Type = "integer"]]

\* a test that forgets PUT
takesBodyPostOnly(method) == method = "POST"

\* route.Method == "POST" || route.Method == "PUT"
takesBody(method) == method = "POST" \/ method = "PUT"

generateOperation(route) ==
    [Tags |-> route.Tags,
     Summary |-> generateSummary(route.Method, route.Path),
     Description |-> "",
     Parameters |-> IF hasIdParam(route.Path) THEN <<idParameter>> ELSE <<>>,
     RequestBody |-> IF takesBody(route.Method) THEN generateRequestBody(route.Path) ELSE <<>>,
     Responses |-> generateResponses(route.Method, route.Path)]

(***************************************************************************)
(* Spec assembler                                                          *)
(***************************************************************************)
\* PathItem{}: four *Operation slots, all nil
PathItem == [Get |-> 0, Post |-> 0, Put |-> 0, Delete |-> 0]

\* a switch that fills a verb slot only while it is nil
setVerbKeepFirst(pathItem, method, operation) ==
    CASE method = "GET" /\ pathItem.Get = 0 -> [pathItem EXCEPT !.Get = operation]
      [] method = "POST" /\ pathItem.Post = 0 -> [pathItem EXCEPT !.Post = operation]
      [] method = "PUT" /\ pathItem.Put = 0 -> [pathItem EXCEPT !.Put = operation]
      [] method = "DELETE" /\ pathItem.Delete = 0 -> [pathItem EXCEPT !.Delete = operation]
      [] OTHER -> pathItem

\* a switch whose default arm stores the operation under get
setVerbOtherAsGet(pathItem, method, operation) ==
    CASE method = "POST" -> [pathItem EXCEPT !.Post = operation]
      [] method = "PUT" -> [pathItem EXCEPT !.Put = operation]
      [] method = "DELETE" -> [pathItem EXCEPT !.Delete = operation]
      [] OTHER -> [pathItem EXCEPT !.Get = operation]

\* the switch on route.Method of generatePaths
setVerb(pathItem, method, operation) ==
    CASE method = "GET" -> [pathItem EXCEPT !.Get = operation]
      [] method = "POST" -> [pathItem EXCEPT !.Post = operation]
      [] method = "PUT" -> [pathItem EXCEPT !.Put = operation]
      [] method = "DELETE" -> [pathItem EXCEPT !.Delete = operation]
      [] OTHER -> pathItem

\* the loop of generatePaths from record i on; ops are the Operations
\* allocated so far, so the one built from record i is ops[i]
RECURSIVE generatePathsFrom(_, _, _, _)

\* a loop that starts every record from an empty PathItem
generatePathsFromFreshItem(routes, i, paths, ops) ==
    IF i > Len(routes) THEN [Paths |-> paths, ops |-> ops]
    ELSE LET route == routes[i]
             allocated == Append(ops, generateOperation(route))
             operation == Len(allocated)
         IN  generatePathsFrom(routes, i + 1,
                 (route.Path :> setVerb(PathItem, route.Method, operation)) @@ paths,
                 allocated)

generatePathsFrom(routes, i, paths, ops) ==
    IF i > Len(routes) THEN [Paths |-> paths, ops |-> ops]
    ELSE LET route == routes[i]
             pathItem == IF route.Path \in DOMAIN paths THEN paths[route.Path] ELSE PathItem
             allocated == Append(ops, generateOperation(route))
             operation == Len(allocated)
         IN  generatePathsFrom(routes, i + 1,
                 (route.Path :> setVerb(pathItem, route.Method, operation)) @@ paths,
                 allocated)

\* the loop of generatePaths for the records before the first one whose
\* method has no verb slot
generatePathsUntilUnsupported(doc, routes) ==
    LET stop == IF \E i \in 1..Len(routes) : routes[i].Method \notin {"GET", "POST", "PUT", "DELETE"}
                THEN (CHOOSE i \in 1..Len(routes) :
                        /\ routes[i].Method \notin {"GET", "POST", "PUT", "DELETE"}
                        /\ \A j \in 1..(i - 1) : routes[j].Method \in {"GET", "POST", "PUT", "DELETE"}) - 1
                ELSE Len(routes)
        r == generatePathsFrom(SubSeq(routes, 1, stop), 1, doc.Paths, <<>>)
    IN  [doc |-> [doc EXCEPT !.Paths = r.Paths], ops |-> r.ops]

generatePaths(doc, routes) ==
    LET r == generatePathsFrom(routes, 1, doc.Paths, <<>>)
    IN  [doc |-> [doc EXCEPT !.Paths = r.Paths], ops |-> r.ops]

\* a Response envelope without the data property
ResponseEnvelopeNoData ==
    [Schema EXCEPT
        !.Type = "object",
        !.Properties = ("status" :> TypedExample("string", StrVal("success")))
                    @@ ("message" :> TypedExample("string", StrVal("Operation completed successfully"))),
        !.Required = <<"status", "message">>]

ResponseEnvelope ==
    [Schema EXCEPT
        !.Type = "object",
        !.Properties = ("status" :> TypedExample("string", StrVal("success")))
                    @@ ("message" :> TypedExample("string", StrVal("Operation completed successfully")))
                    @@ ("data" :> [Schema EXCEPT !.AdditionalProperties = BoolVal(TRUE)]),
        !.Required = <<"status", "message">>]

ErrorEnvelope ==
    [Schema EXCEPT
        !.Type = "object",
        !.Properties = ("status" :> TypedExample("string", StrVal("error")))
                    @@ ("message" :> TypedExample("string", StrVal("Error description"))),
        !.Required = <<"status", "message">>]

\* generateSchemas without the ErrorResponse envelope
generateSchemasNoError(doc) ==
    [doc EXCEPT !.Components.Schemas = ("Response" :> ResponseEnvelope) @@ @]

\* generateModelSchema(reflect.TypeOf(models.User{}))
userSchema == generateModelSchema(UserType)

generateSchemas(doc) ==
    [doc EXCEPT !.Components.Schemas =
        ("ErrorResponse" :> ErrorEnvelope)
     @@ ("Response" :> ResponseEnvelope)
     @@ ("User" :> userSchema)
     @@ @]

\* a SwaggerSpec literal whose server list grows on the one left by the last call
newSpecKeepServers(swaggerInfo) ==
    [OpenAPI |-> "3.0.0",
     Info |-> swaggerInfo,
     Servers |-> (IF spec = <<>> THEN <<>> ELSE spec[1].Servers)
                 \o << [URL |-> "http://" \o swaggerInfo.Host, Description |-> "Development server"] >>,
     Paths |-> <<>>,
     Components |-> [Schemas |-> <<>>]]

\* a SwaggerSpec literal whose server URL carries the base path
newSpecWithBasePath(swaggerInfo) ==
    [OpenAPI |-> "3.0.0",
     Info |-> swaggerInfo,
     Servers |-> << [URL |-> "http://" \o swaggerInfo.Host \o swaggerInfo.BasePath,
                     Description |-> "Development server"] >>,
     Paths |-> <<>>,
     Components |-> [Schemas |-> <<>>]]

\* the SwaggerSpec literal GenerateSwagger starts from
newSpec(swaggerInfo) ==
    [OpenAPI |-> "3.0.0",
     Info |-> swaggerInfo,
     Servers |-> << [URL |-> "http://" \o swaggerInfo.Host, Description |-> "Development server"] >>,
     Paths |-> <<>>,
     Components |-> [Schemas |-> <<>>]]

\* a generateSchemas that reports a fault of the model walk
generateSchemasErrFault == "reflect: fault"

\* the error generateSchemas returns: its one return statement is return nil
generateSchemasErr == "nil"

\* the error generatePaths returns: its one return statement is return nil
generatePathsErr == "nil"

\* what GenerateSwagger returns: the document, the Operations it points to, the error
GenerateSwaggerResult(r, swaggerInfo) ==
    LET extracted == extractRoutes(r)
        withSchemas == generateSchemas(newSpec(swaggerInfo))
        withPaths == generatePaths(withSchemas, extracted)
    IN  IF generateSchemasErr # "nil"
        THEN [routes |-> extracted, spec |-> <<>>, heap |-> <<>>,
              err |-> "error generating schemas: " \o generateSchemasErr]
        ELSE IF generatePathsErr # "nil"
        THEN [routes |-> extracted, spec |-> <<>>, heap |-> <<>>,
              err |-> "error generating paths: " \o generatePathsErr]
        ELSE [routes |-> extracted, spec |-> <<withPaths.doc>>, heap |-> withPaths.ops,
              err |-> "nil"]

(***************************************************************************)
(* Serializer                                                              *)
(***************************************************************************)
\* json of a *Operation slot: the pointed-to Operation, or nothing (omitempty)
marshalPathItem(pathItem, ops) ==
    LET slots == [get |-> pathItem.Get, post |-> pathItem.Post,
                  put |-> pathItem.Put, delete |-> pathItem.Delete]
        present == {k \in DOMAIN slots : slots[k] # 0}
    IN  [k \in present |-> ops[slots[k]]]

\* json.MarshalIndent(spec): an object per struct, map keys in sorted (canonical)
\* order, pointers followed
Marshal(doc, ops) ==
    [openapi |-> doc.OpenAPI, info |-> doc.Info, servers |-> doc.Servers,
     paths |-> [p \in DOMAIN doc.Paths |-> marshalPathItem(doc.Paths[p], ops)],
     components |-> [schemas |-> doc.Components.Schemas]]

(***************************************************************************)
(* The process: routes are registered on the router, documents are         *)
(* generated from it                                                       *)
(***************************************************************************)
SwaggerIdle ==
    /\ pc = "setup"
    /\ router = <<>>
    /\ routeInfos = <<>>
    /\ spec = <<>>
    /\ heap = <<>>
    /\ err = "nil"
    /\ calls = 0

SchemaIdle == model = <<>> /\ schema = <<>>

\* GenerateSwaggerDocs has not been invoked
DocsIdle ==
    /\ docsPc = "idle"
    /\ fatal = FALSE
    /\ serverHost = "localhost"
    /\ file = <<>>
    /\ saveErr = "nil"
    /\ stdout = <<>>

ServeIdle ==
    /\ requests = <<>>
    /\ docs = <<>>
    /\ responses = <<>>

LogIdle ==
    /\ exchange = <<>>
    /\ httpLog = <<>>

LoggerIdle ==
    /\ logger = <<>>
    /\ dbHandle = "nil"
    /\ logsTable = <<>>
    /\ out = <<>>
    /\ logCalls = <<>>

ChainIdle ==
    /\ middlewares = <<>>
    /\ handler = <<>>
    /\ depth = 0
    /\ phase = "build"
    /\ trace = <<>>
    /\ httpReq = <<>>
    /\ httpResp = <<>>

MakeIdle ==
    /\ files = <<>>
    /\ templatesOk = {}
    /\ panics = FALSE
    /\ modelName = ""
    /\ makePc = "idle"
    /\ makes = 0
    /\ makeOut = <<>>

RestIdle == DocsIdle /\ ServeIdle /\ LogIdle /\ LoggerIdle /\ ChainIdle /\ MakeIdle

Init == info \in Infos /\ SwaggerIdle /\ SchemaIdle /\ RestIdle

\* router.HandleFunc(path, h).Methods(methods...)
HandleFunc(path, methods) ==
    /\ pc = "setup"
    /\ Len(router) < MaxRoutes
    /\ router' = Append(router, Route(<<path>>, methods))
    /\ UNCHANGED <<pc, info, routeInfos, spec, heap, err, calls, schemaVars, restVars>>

\* router.PathPrefix(prefix): a route with a path template and no methods
PathPrefix(prefix) ==
    /\ pc = "setup"
    /\ Len(router) < MaxRoutes
    /\ router' = Append(router, Route(<<prefix>>, <<>>))
    /\ UNCHANGED <<pc, info, routeInfos, spec, heap, err, calls, schemaVars, restVars>>

\* router.Methods(methods...): a route with methods and no path template
MethodsOnly(methods) ==
    /\ pc = "setup"
    /\ Len(router) < MaxRoutes
    /\ router' = Append(router, Route(<<>>, methods))
    /\ UNCHANGED <<pc, info, routeInfos, spec, heap, err, calls, schemaVars, restVars>>

\* SetupRoutes returns the router
SetupRoutes ==
    /\ pc = "setup"
    /\ pc' = "ready"
    /\ UNCHANGED <<info, router, routeInfos, spec, heap, err, calls, schemaVars, restVars>>

\* spec, err := GenerateSwagger(router, info)
GenerateSwagger ==
    LET res == GenerateSwaggerResult(router, info) IN
    /\ pc = "ready"
    /\ calls < MaxCalls
    /\ calls' = calls + 1
    /\ routeInfos' = res.routes
    /\ spec' = res.spec
    /\ heap' = res.heap
    /\ err' = res.err
    /\ UNCHANGED <<pc, info, router, schemaVars, restVars>>

RegisterHandle == \E path \in Paths, method \in Methods : HandleFunc(path, <<method>>)
RegisterMulti == HandleFunc(UsersPath, <<"GET", "POST">>)
RegisterOther == \E path \in OtherPaths : HandleFunc(path, <<"GET">>)
RegisterPrefix == PathPrefix(ApiPrefix)
RegisterMethods == MethodsOnly(<<"GET">>)

Next == RegisterHandle \/ RegisterMulti \/ RegisterOther \/ RegisterPrefix \/ RegisterMethods \/ SetupRoutes \/ GenerateSwagger

Spec == Init /\ [][Next]_vars

(***************************************************************************)
(* The swagger command: GenerateSwaggerDocs                                *)
(***************************************************************************)
SwaggerJsonPath == <<"/", "swagger.json">>
SwaggerUIPrefix == <<"/", "swagger", "/">>

\* the router SetupRoutes builds, in Walk order: the /api sub-router route,
\* the routes registered on the sub-router, then the swagger routes
AppRouter ==
    << Route(<<ApiPrefix>>, <<>>),
       Route(<<UsersPath>>, <<"GET">>),
       Route(<<UserIdPath>>, <<"GET">>),
       Route(<<UsersPath>>, <<"POST">>),
       Route(<<UserIdPath>>, <<"PUT">>),
       Route(<<UserIdPath>>, <<"DELETE">>),
       Route(<<HealthPath>>, <<"GET">>),
       Route(<<SwaggerJsonPath>>, <<"GET">>),
       Route(<<SwaggerUIPrefix>>, <<>>) >>

\* SERVER_HOST values of the environments considered
Hosts == {"localhost", "0.0.0.0", "api.example.com"}

\* the SwaggerInfo GenerateSwaggerDocs builds: 0.0.0.0 is shown as localhost
CommandInfo(host) ==
    [Version |-> "1.0.0", Title |-> "WentFramework API",
     Description |-> "Auto-generated API documentation for WentFramework - A lightweight Go framework for building RESTful APIs",
     Host |-> (IF host = "0.0.0.0" THEN "localhost" ELSE host) \o ":3000",
     BasePath |-> "/api"]

\* a docs/swagger.json left by an earlier run
OldFile == [data |-> Marshal(generateSchemas(newSpec(DefaultInfo)), <<>>), complete |-> TRUE]

MarshalError == "json: unsupported value"
OpenErrors == {"open docs/swagger.json: no such file or directory",
               "open docs/swagger.json: permission denied"}
WriteError == "write docs/swagger.json: no space left on device"

\* what json.MarshalIndent and os.WriteFile can answer
SaveOutcomes == {"ok", MarshalError, WriteError} \cup OpenErrors

\* a SaveSwaggerSpec that opens the file before it serializes
saveSwaggerSpecOpenFirst(doc, ops, f, outcome) ==
    CASE outcome = MarshalError -> [file |-> <<[data |-> Marshal(doc, ops), complete |-> FALSE]>>,
                                    err |-> MarshalError]
      [] outcome \in OpenErrors -> [file |-> f, err |-> outcome]
      [] outcome = WriteError ->
            [file |-> <<[data |-> Marshal(doc, ops), complete |-> FALSE]>>, err |-> WriteError]
      [] OTHER -> [file |-> <<[data |-> Marshal(doc, ops), complete |-> TRUE]>>, err |-> "nil"]

\* SaveSwaggerSpec(spec, filename): the file afterwards and the error returned.
\* A failed open leaves the file as it was; a failed write leaves what
\* O_TRUNC and the partial write left
saveSwaggerSpec(doc, ops, f, outcome) ==
    CASE outcome = MarshalError -> [file |-> f, err |-> MarshalError]
      [] outcome \in OpenErrors -> [file |-> f, err |-> outcome]
      [] outcome = WriteError ->
            [file |-> <<[data |-> Marshal(doc, ops), complete |-> FALSE]>>, err |-> WriteError]
      [] OTHER -> [file |-> <<[data |-> Marshal(doc, ops), complete |-> TRUE]>>, err |-> "nil"]

SuccessLine == "Swagger documentation generated successfully!"
SavedLine == "Saved to: docs/swagger.json"

\* the line a failure is reported with: log.Fatalf in one command file,
\* fmt.Printf and return in the other
FailureLine(what, e) ==
    IF fatal THEN "Error " \o what \o " swagger spec: " \o e
    ELSE "Failed to " \o (IF what = "saving" THEN "save" ELSE "generate")
         \o " Swagger documentation: " \o e

DocsInit ==
    /\ pc = "setup"
    /\ router = <<>>
    /\ routeInfos = <<>>
    /\ spec = <<>>
    /\ heap = <<>>
    /\ err = "nil"
    /\ calls = 0
    /\ SchemaIdle
    /\ docsPc = "start"
    /\ fatal \in BOOLEAN
    /\ serverHost \in Hosts
    /\ info = CommandInfo(serverHost)
    /\ file \in {<<>>, <<OldFile>>}
    /\ saveErr = "nil"
    /\ stdout = <<>>
    /\ ServeIdle
    /\ LogIdle
    /\ LoggerIdle
    /\ ChainIdle
    /\ MakeIdle

\* r := router.SetupRoutes()
DocsSetupRoutes ==
    /\ docsPc = "start"
    /\ router' = AppRouter
    /\ pc' = "ready"
    /\ docsPc' = "routes"
    /\ stdout' = Append(stdout, "Generating Swagger documentation...")
    /\ UNCHANGED <<info, routeInfos, spec, heap, err, calls, schemaVars,
                   fatal, serverHost, file, saveErr, serveVars, logVars, loggerVars, chainVars, makeVars>>

\* spec, err := swagger.GenerateSwagger(r, info), and the return on an error
DocsGenerateSwagger ==
    LET res == GenerateSwaggerResult(router, info) IN
    /\ docsPc = "routes"
    /\ calls' = calls + 1
    /\ routeInfos' = res.routes
    /\ spec' = res.spec
    /\ heap' = res.heap
    /\ err' = res.err
    /\ IF res.err # "nil"
       THEN /\ stdout' = Append(stdout, FailureLine("generating", res.err))
            /\ docsPc' = IF fatal THEN "exited" ELSE "returned"
       ELSE /\ stdout' = stdout
            /\ docsPc' = "generated"
    /\ UNCHANGED <<pc, info, router, schemaVars, fatal, serverHost, file, saveErr, serveVars, logVars, loggerVars, chainVars, makeVars>>

\* err := swagger.SaveSwaggerSpec(spec, filename)
SaveSwaggerSpec ==
    \E outcome \in SaveOutcomes :
        LET res == saveSwaggerSpec(spec[1], heap, file, outcome) IN
        /\ docsPc = "generated"
        /\ (outcome = "open docs/swagger.json: no such file or directory") => file = <<>>
        /\ file' = res.file
        /\ saveErr' = res.err
        /\ docsPc' = "saved"
        /\ UNCHANGED <<swaggerVars, schemaVars, fatal, serverHost, stdout, serveVars, logVars, loggerVars, chainVars, makeVars>>

\* the end of GenerateSwaggerDocs: the failure report, or the success lines
DocsReport ==
    /\ docsPc = "saved"
    /\ IF saveErr # "nil"
       THEN /\ stdout' = Append(stdout, FailureLine("saving", saveErr))
            /\ docsPc' = IF fatal THEN "exited" ELSE "returned"
       ELSE /\ stdout' = stdout \o <<SuccessLine, SavedLine>>
            /\ docsPc' = "returned"
    /\ UNCHANGED <<swaggerVars, schemaVars, fatal, serverHost, file, saveErr, serveVars, logVars, loggerVars, chainVars, makeVars>>

DocsNext == DocsSetupRoutes \/ DocsGenerateSwagger \/ SaveSwaggerSpec \/ DocsReport

DocsSpec == DocsInit /\ [][DocsNext]_vars

(***************************************************************************)
(* Schema derivation over arbitrary models                                 *)
(***************************************************************************)
FieldNames == {"ID", "Name", "Note"}

JsonTags ==
    { <<>>, <<"-">>, <<"id">>, <<"name">>, <<"name", ",", "omitempty">>,
      <<",", "omitempty">>, <<"omitempty">>, <<"note", ",", "string">>, <<"Name">> }

ProfileType ==
    StructOf("models.Profile",
        << Field("Bio", <<"bio">>, Prim("string")),
           Field("Since", <<"since", ",", "omitempty">>, TimeType),
           Field("Visits", <<"visits">>, Prim("uint64")) >>)

\* a model nesting another model, a slice of models and a map
AccountType ==
    StructOf("models.Account",
        << Field("Profile", <<"profile">>, ProfileType),
           Field("Friends", <<"friends">>, SliceOf(ProfileType)),
           Field("Settings", <<"settings", ",", "omitempty">>, Prim("map")) >>)

FieldTypes ==
    {Prim(k) : k \in {"string", "bool", "map", "interface"} \cup IntKinds \cup UintKinds \cup FloatKinds}
    \cup {SliceOf(Prim("int")), TimeType, PtrTo(TimeType), ProfileType}
    \cup {SliceOf(SliceOf(Prim("bool"))), PtrTo(Prim("int")), Prim("array"), AccountType}

Fields ==
    {Field(n, tag, Prim("string")) : n \in FieldNames, tag \in JsonTags}
    \cup {Field("Note", <<"note">>, t) : t \in FieldTypes}
    \cup {Field("ID", <<"id">>, t) : t \in {Prim("uint64"), Prim("int"), TimeType}}

ModelTypes ==
    {StructOf("models.Model", fs) : fs \in UNION {[1..n -> Fields] : n \in 0..MaxFields}}
    \cup {UserType, PtrTo(UserType)}

SchemaInit ==
    /\ info = DefaultInfo
    /\ SwaggerIdle
    /\ model \in {<<t>> : t \in ModelTypes}
    /\ schema = <<>>
    /\ RestIdle

\* generateModelSchema(reflect.TypeOf(m))
Derive ==
    /\ model # <<>>
    /\ schema = <<>>
    /\ schema' = <<generateModelSchema(model[1])>>
    /\ UNCHANGED <<model, swaggerVars, restVars>>

SchemaNext == Derive

SchemaSpec == SchemaInit /\ [][SchemaNext]_vars

(***************************************************************************)
(* Properties of the generated document                                    *)
(***************************************************************************)
Verbs == {"GET", "POST", "PUT", "DELETE"}

\* the *Operation a PathItem holds for a verb
Slot(pathItem, method) ==
    CASE method = "GET" -> pathItem.Get
      [] method = "POST" -> pathItem.Post
      [] method = "PUT" -> pathItem.Put
      [] method = "DELETE" -> pathItem.Delete

\* the verbs of a path that hold an operation
FilledVerbs(doc, path) == {m \in Verbs : Slot(doc.Paths[path], m) # 0}

\* the operations the document points to
DocOperations(doc, ops) ==
    {ops[Slot(doc.Paths[p], m)] : <<p, m>> \in {pm \in (DOMAIN doc.Paths) \X Verbs :
                                                 Slot(doc.Paths[pm[1]], pm[2]) # 0}}

\* every $ref in a schema, at any depth
RECURSIVE SchemaRefs(_)
SchemaRefs(s) ==
    (IF s.Ref = <<>> THEN {} ELSE {s.Ref})
    \cup UNION {SchemaRefs(s.Properties[k]) : k \in DOMAIN s.Properties}
    \cup UNION {SchemaRefs(s.Items[i]) : i \in DOMAIN s.Items}

ContentRefs(content) == UNION {SchemaRefs(content[mt].Schema) : mt \in DOMAIN content}

OperationRefs(op) ==
    UNION {ContentRefs(op.Responses[code].Content) : code \in DOMAIN op.Responses}
    \cup UNION {ContentRefs(op.RequestBody[i].Content) : i \in DOMAIN op.RequestBody}
    \cup UNION {SchemaRefs(op.Parameters[i].Schema) : i \in DOMAIN op.Parameters}

\* every $ref of the document: operations and component schemas
DocRefs(doc, ops) ==
    UNION {OperationRefs(op) : op \in DocOperations(doc, ops)}
    \cup UNION {SchemaRefs(doc.Components.Schemas[k]) : k \in DOMAIN doc.Components.Schemas}

\* the components key a $ref names
Resolves(ref, doc) ==
    /\ Len(ref) = 2
    /\ ref[1] = RefPrefix
    /\ ref[2] \in DOMAIN doc.Components.Schemas

\* C1: every $ref of a returned document names a key of its
\* components.schemas, and the document as it stands before generatePaths
\* builds any operation already holds every one of those keys.
C1_RefsResolve ==
    spec # <<>> =>
        LET doc == spec[1]
            before == generateSchemas(newSpec(doc.Info))
        IN  /\ \A ref \in DocRefs(doc, heap) : Resolves(ref, doc)
            /\ before.Paths = <<>>
            /\ \A ref \in DocRefs(doc, heap) : Resolves(ref, before)

\* a document whose operations reference both envelopes
C1_Witness ==
    /\ spec # <<>>
    /\ <<RefPrefix, "Response">> \in DocRefs(spec[1], heap)
    /\ <<RefPrefix, "ErrorResponse">> \in DocRefs(spec[1], heap)

\* the records the last GenerateSwagger extracted; heap[i] was built from Records[i]
Records == routeInfos

\* the $ref of the JSON schema of a response
ResponseRef(op, code) == op.Responses[code].Content["application/json"].Schema.Ref

\* C3: when two extracted records share (method, path), the verb slot of
\* that path holds the one operation built from the last such record, and
\* not the earlier one.
C3_LastWriteWins ==
    spec # <<>> =>
        \A i \in DOMAIN Records, j \in DOMAIN Records :
            ( /\ i < j
              /\ Records[i].Method = Records[j].Method
              /\ Records[i].Path = Records[j].Path
              /\ Records[i].Method \in Verbs
              /\ \A k \in DOMAIN Records :
                    (k > j) => ~(Records[k].Method = Records[j].Method
                                 /\ Records[k].Path = Records[j].Path) )
            => /\ Records[j].Path \in DOMAIN spec[1].Paths
               /\ Slot(spec[1].Paths[Records[j].Path], Records[j].Method) = j
               /\ heap[j] = generateOperation(Records[j])

\* a document generated from a router with a duplicate registration
C3_Witness ==
    /\ spec # <<>>
    /\ \E i \in DOMAIN Records, j \in DOMAIN Records :
          /\ i < j
          /\ Records[i].Method = Records[j].Method
          /\ Records[i].Path = Records[j].Path
          /\ Records[i].Method \in Verbs
          /\ Slot(spec[1].Paths[Records[j].Path], Records[j].Method) = j

HealthOnly == Records = <<RouteInfo("GET", HealthPath)>>

Codes(i) == DOMAIN heap[i].Responses

RefResponse == <<RefPrefix, "Response">>
RefErrorResponse == <<RefPrefix, "ErrorResponse">>

\* C6: off the health-check path the success codes follow the table: GET
\* with {id} has 200 (Response) and 404 (ErrorResponse), GET without {id}
\* has 200 and no 404, POST has 201 and no 200, PUT and DELETE have 200; GET
\* /api/users/{id} has exactly {200, 404, 400, 500} and POST /api/users
\* exactly {201, 400, 500}.
C6_ResponseTable ==
    spec # <<>> =>
        \A i \in DOMAIN heap :
            LET method == Records[i].Method
                path == Records[i].Path
                withId == Contains(path, <<"{id}">>)
            IN  path # HealthPath =>
                /\ (method = "GET" /\ withId) =>
                        /\ {"200", "404"} \subseteq Codes(i)
                        /\ ResponseRef(heap[i], "200") = RefResponse
                        /\ ResponseRef(heap[i], "404") = RefErrorResponse
                /\ (method = "GET" /\ ~withId) =>
                        /\ "200" \in Codes(i)
                        /\ "404" \notin Codes(i)
                        /\ ResponseRef(heap[i], "200") = RefResponse
                /\ method = "POST" =>
                        /\ "201" \in Codes(i)
                        /\ "200" \notin Codes(i)
                        /\ ResponseRef(heap[i], "201") = RefResponse
                /\ method \in {"PUT", "DELETE"} =>
                        /\ "200" \in Codes(i)
                        /\ ResponseRef(heap[i], "200") = RefResponse
                /\ (method = "GET" /\ path = UserIdPath) =>
                        Codes(i) = {"200", "404", "400", "500"}
                /\ (method = "POST" /\ path = UsersPath) =>
                        Codes(i) = {"201", "400", "500"}

\* operations were built for GET /api/users/{id} and for POST /api/users
C6_Witness ==
    /\ spec # <<>>
    /\ \E i \in DOMAIN heap, j \in DOMAIN heap :
          /\ Records[i].Method = "GET" /\ Records[i].Path = UserIdPath
          /\ Records[j].Method = "POST" /\ Records[j].Path = UsersPath
          /\ "404" \in Codes(i)
          /\ "201" \in Codes(j)

\* C7 as stated: every operation built, whatever its method and path, has a
\* 400 and a 500 response, each referencing ErrorResponse.
C7_AlwaysErrorResponses ==
    spec # <<>> =>
        \A i \in DOMAIN heap :
            /\ {"400", "500"} \subseteq Codes(i)
            /\ ResponseRef(heap[i], "400") = RefErrorResponse
            /\ ResponseRef(heap[i], "500") = RefErrorResponse

\* C7 amended: every operation built for a path other than /api/health has a
\* 400 and a 500 response, each referencing ErrorResponse; an operation on
\* /api/health has its 200 response only.
C7_ErrorResponsesOffHealth ==
    spec # <<>> =>
        \A i \in DOMAIN heap :
            IF Records[i].Path = HealthPath
            THEN Codes(i) = {"200"}
            ELSE /\ {"400", "500"} \subseteq Codes(i)
                 /\ ResponseRef(heap[i], "400") = RefErrorResponse
                 /\ ResponseRef(heap[i], "500") = RefErrorResponse

\* operations were built on the health-check path and off it
C7_Witness ==
    /\ spec # <<>>
    /\ \E i \in DOMAIN heap, j \in DOMAIN heap :
          /\ Records[i].Path = HealthPath
          /\ Records[j].Path # HealthPath
          /\ "500" \in Codes(j)

\* C8: an operation has exactly one parameter, the required integer path
\* parameter "id" described as "Resource ID", when its path contains {id},
\* and no parameter otherwise; no parameter is ever a query parameter.
C8_IdParameter ==
    spec # <<>> =>
        \A i \in DOMAIN heap :
            LET params == heap[i].Parameters IN
            /\ IF Contains(Records[i].Path, <<"{id}">>)
               THEN /\ Len(params) = 1
                    /\ params[1].Name = "id"
                    /\ params[1].In = "path"
                    /\ params[1].Required
                    /\ params[1].Schema.Type = "integer"
                    /\ params[1].Description = "Resource ID"
               ELSE params = <<>>
            /\ \A k \in DOMAIN params : params[k].In # "query"

\* operations were built for a path with {id} and for a path without
C8_Witness ==
    /\ spec # <<>>
    /\ \E i \in DOMAIN heap, j \in DOMAIN heap :
          /\ Contains(Records[i].Path, <<"{id}">>)
          /\ Len(heap[i].Parameters) = 1
          /\ ~Contains(Records[j].Path, <<"{id}">>)

\* the request body the claim describes
IsUserBody(body) ==
    LET s == body.Content["application/json"].Schema IN
    /\ body.Required
    /\ DOMAIN body.Content = {"application/json"}
    /\ DOMAIN s.Properties = {"name", "email"}
    /\ s.Properties["name"].Type = "string"
    /\ s.Properties["email"].Type = "string"
    /\ s.Properties["name"].Example = StrVal("John Doe")
    /\ s.Properties["email"].Example = StrVal("john@example.com")
    /\ {s.Required[k] : k \in DOMAIN s.Required} = {"name", "email"}

\* C9 as stated: an operation has a request body exactly when its method is
\* POST or PUT and its path contains "users".
C9_BodyIffContainsUsers ==
    spec # <<>> =>
        \A i \in DOMAIN heap :
            (heap[i].RequestBody # <<>>) <=>
                (Records[i].Method \in {"POST", "PUT"} /\ Contains(Records[i].Path, <<"users">>))

\* C9 amended: an operation has a request body exactly when its method is
\* POST or PUT and its path contains "/users"; the body is then required,
\* with string properties name and email, both required, with the examples
\* "John Doe" and "john@example.com".
C9_BodyIffUsersResource ==
    spec # <<>> =>
        \A i \in DOMAIN heap :
            /\ (heap[i].RequestBody # <<>>) <=>
                  (Records[i].Method \in {"POST", "PUT"}
                   /\ Contains(Records[i].Path, <<"/", "users">>))
            /\ heap[i].RequestBody # <<>> => IsUserBody(heap[i].RequestBody[1])

\* a PUT on the users resource got its body, and a PUT elsewhere and a GET
\* on the users resource got none
C9_Witness ==
    /\ spec # <<>>
    /\ \E i \in DOMAIN heap, j \in DOMAIN heap :
          /\ Records[i].Method = "PUT" /\ Records[i].Path = UserIdPath
          /\ heap[i].RequestBody # <<>>
          /\ Records[j].Method \in {"PUT", "GET"}
          /\ heap[j].RequestBody = <<>>

(***************************************************************************)
(* Properties of schema derivation                                         *)
(***************************************************************************)
\* the struct generateModelSchema reflects on
Reflected == IF model[1].Kind = "ptr" THEN model[1].Elem[1] ELSE model[1]

\* the serialization tag is present and is not "-"
TagIncludes(tag) == tag # <<>> /\ tag # <<"-">>

\* the tag carries the omitempty option: a segment after the name that is
\* exactly omitempty
TagOmitempty(tag) ==
    \E k \in 2..Len(tag) :
        /\ tag[k] = "omitempty"
        /\ tag[k - 1] = ","
        /\ (k = Len(tag) \/ tag[k + 1] = ",")

IncludedFields(t) == {k \in 1..Len(t.Fields) : TagIncludes(t.Fields[k].Tag)}

\* C2: a model with N included fields derives to a schema with exactly N
\* properties whose required set is exactly the wire names of the included
\* fields whose tag lacks the omitempty modifier.
C2_PropertiesAndRequired ==
    schema # <<>> =>
        LET t == Reflected
            s == schema[1]
        IN  /\ Cardinality(DOMAIN s.Properties) = Cardinality(IncludedFields(t))
            /\ {s.Required[k] : k \in DOMAIN s.Required}
                 = {jsonNameOf(t.Fields[k]) :
                        k \in {n \in IncludedFields(t) : ~TagOmitempty(t.Fields[n].Tag)}}

\* the included field k of t is the one its wire name ends up describing
Describes(t, k) ==
    /\ TagIncludes(t.Fields[k].Tag)
    /\ \A n \in (k + 1)..Len(t.Fields) :
          TagIncludes(t.Fields[n].Tag) => jsonNameOf(t.Fields[n]) # jsonNameOf(t.Fields[k])

RECURSIVE Uint64AndTimeDerived(_, _)
Uint64AndTimeDerived(t, s) ==
    \A k \in 1..Len(t.Fields) :
        Describes(t, k) =>
            LET ft == t.Fields[k].Type
                fs == s.Properties[jsonNameOf(t.Fields[k])]
            IN  /\ ft.Kind = "uint64" => (fs.Type = "integer" /\ fs.Format = "int64")
                /\ (ft.Kind = "struct" /\ ft.Name = "time.Time") =>
                      /\ fs.Type = "string"
                      /\ fs.Format = "date-time"
                      /\ fs.Properties = <<>>
                /\ (ft.Kind = "struct" /\ ft.Name # "time.Time") =>
                      Uint64AndTimeDerived(ft, fs)

\* C10: a uint64 field derives to {integer, int64} and a time.Time field to
\* {string, date-time} without properties, at every nesting depth.
C10_Uint64AndTime == schema # <<>> => Uint64AndTimeDerived(Reflected, schema[1])

\* a schema derived from a model with a uint64 field and a time.Time field
C10_Witness ==
    /\ schema # <<>>
    /\ \E i \in 1..Len(Reflected.Fields), j \in 1..Len(Reflected.Fields) :
          /\ Describes(Reflected, i) /\ Reflected.Fields[i].Type.Kind = "uint64"
          /\ Describes(Reflected, j) /\ Reflected.Fields[j].Type = TimeType
          /\ schema[1].Properties[jsonNameOf(Reflected.Fields[j])].Format = "date-time"

\* the schema derived for the included field k of the reflected struct
FieldSchemaOf(k) == schema[1].Properties[jsonNameOf(Reflected.Fields[k])]

\* the fields of the reflected struct that their wire name ends up describing
DescribedFields == {k \in 1..Len(Reflected.Fields) : Describes(Reflected, k)}

\* Go's signed and unsigned integer kinds
SignedKinds == {"int", "int8", "int16", "int32", "int64"}
UnsignedKinds == {"uint", "uint8", "uint16", "uint32", "uint64"}

\* C11 as stated: every integer kind derives to integer, and format int64 is
\* set for uint64 alone: signed kinds and narrower unsigned kinds carry no
\* format.
C11_Int64OnlyForUint64 ==
    schema # <<>> =>
        \A k \in DescribedFields :
            LET kind == Reflected.Fields[k].Type.Kind IN
            kind \in SignedKinds \cup UnsignedKinds =>
                /\ FieldSchemaOf(k).Type = "integer"
                /\ FieldSchemaOf(k).Format = (IF kind = "uint64" THEN "int64" ELSE "")

\* C11 amended: every integer kind derives to integer; every unsigned kind,
\* of any width, carries format int64 and every signed kind carries no format.
C11_Int64ForUnsigned ==
    schema # <<>> =>
        \A k \in DescribedFields :
            LET kind == Reflected.Fields[k].Type.Kind IN
            kind \in SignedKinds \cup UnsignedKinds =>
                /\ FieldSchemaOf(k).Type = "integer"
                /\ FieldSchemaOf(k).Format = (IF kind \in UnsignedKinds THEN "int64" ELSE "")

\* a schema derived from a model with a uint8 field and an int field
C11_Witness ==
    /\ schema # <<>>
    /\ \E i \in DescribedFields, j \in DescribedFields :
          /\ Reflected.Fields[i].Type.Kind = "uint8"
          /\ FieldSchemaOf(i).Format = "int64"
          /\ Reflected.Fields[j].Type.Kind = "int"
          /\ FieldSchemaOf(j).Type = "integer"
          /\ FieldSchemaOf(j).Format = ""

\* the example the table gives a wire name and a kind: by name first, case
\* ignored, then by kind with every integer kind giving 1
TableExample(wireName, kind) ==
    LET n == ToLower(wireName) IN
    CASE n = "id" -> IntVal(1)
      [] n = "name" -> StrVal("John Doe")
      [] n = "email" -> StrVal("john@example.com")
      [] n \in {"created_at", "updated_at"} -> StrVal(TimestampLiteral)
      [] kind = "string" -> StrVal("example string")
      [] kind \in SignedKinds \cup UnsignedKinds -> IntVal(1)
      [] kind = "bool" -> BoolVal(TRUE)
      [] OTHER -> Nil

\* C12: the example attached to a derived field is the one the table gives
\* its wire name and kind: id, name, email, created_at and updated_at by
\* name whatever the kind and the case, otherwise "example string" for a
\* string, 1 for every integer kind of every width, true for a boolean and
\* no example for any other kind.
C12_ExampleTable ==
    schema # <<>> =>
        \A k \in DescribedFields :
            FieldSchemaOf(k).Example
                = TableExample(jsonNameOf(Reflected.Fields[k]), Reflected.Fields[k].Type.Kind)

\* the name segment of a tag: what precedes its first comma
NameSegment(tag) == Join(SubSeq(tag, 1, (CHOOSE i \in 1..(Len(tag) + 1) :
                            /\ (i = Len(tag) + 1 \/ tag[i] = ",")
                            /\ \A j \in 1..(i - 1) : tag[j] # ",") - 1))

\* the key a field is expected under: the name segment of its tag, else its
\* lower-cased identifier
ExpectedKey(field) ==
    IF NameSegment(field.Tag) # "" THEN NameSegment(field.Tag) ELSE ToLower(field.Name)

\* C13: the keys of properties are exactly the expected keys of the fields
\* whose tag is present and is not "-" (the tag's name segment, or the
\* lower-cased identifier when the tag has none); a field with no tag or
\* with the tag "-" contributes no key to properties or to required.
C13_FieldInclusion ==
    schema # <<>> =>
        LET t == Reflected
            s == schema[1]
            keys == {ExpectedKey(t.Fields[k]) : k \in IncludedFields(t)}
        IN  /\ DOMAIN s.Properties = keys
            /\ {s.Required[k] : k \in DOMAIN s.Required} \subseteq keys

\* a schema derived from a model with a field tagged "-" (or untagged) next
\* to a field whose tag is only ",omitempty", keyed by its lower-cased name
C13_Witness ==
    /\ schema # <<>>
    /\ \E i \in 1..Len(Reflected.Fields), j \in 1..Len(Reflected.Fields) :
          /\ Reflected.Fields[i].Tag = <<"-">>
          /\ Reflected.Fields[j].Tag = <<",", "omitempty">>
          /\ Reflected.Fields[j].Name = "Note"
          /\ DOMAIN schema[1].Properties = {"note"}

\* the kinds generateFieldSchema has a case arm for
RecognisedKinds ==
    {"string", "bool", "slice", "struct", "float32", "float64"} \cup SignedKinds \cup UnsignedKinds

\* the schema s derived for the struct t is well formed at every depth: a
\* slice field is an array of strings, a field of an unrecognised kind is a
\* plain string, a nested struct is an object that is well formed in turn
RECURSIVE WellDerived(_, _)
WellDerived(t, s) ==
    /\ s.Type = "object"
    /\ \A k \in 1..Len(t.Fields) :
          Describes(t, k) =>
              LET ft == t.Fields[k].Type
                  fs == s.Properties[jsonNameOf(t.Fields[k])]
              IN  /\ fs # Panic
                  /\ fs.Type \in {"string", "integer", "number", "boolean", "array", "object"}
                  /\ ft.Kind = "slice" =>
                        /\ fs.Type = "array"
                        /\ Len(fs.Items) = 1
                        /\ fs.Items[1] = [Schema EXCEPT !.Type = "string"]
                  /\ ft.Kind \notin RecognisedKinds =>
                        /\ fs.Type = "string"
                        /\ fs.Format = ""
                        /\ fs.Properties = <<>>
                  /\ (ft.Kind = "struct" /\ ft.Name # "time.Time") => WellDerived(ft, fs)

Reports(route) == route.tpl # <<>> /\ route.methods # <<>>

\* how many records the first n routes of the router are due
RECURSIVE RecordsDue(_)
RecordsDue(n) ==
    IF n = 0 THEN 0
    ELSE RecordsDue(n - 1) + (IF Reports(router[n]) THEN Len(router[n].methods) ELSE 0)

\* C15: the records extracted are, in walk order, one per method of every
\* route that reports both its path template and its methods, routes
\* registered under the /api sub-router included; a route that cannot
\* report either contributes nothing, raises no error and the routes after
\* it are still extracted.
C15_OneRecordPerRouteMethod ==
    spec # <<>> =>
        /\ err = "nil"
        /\ Len(heap) = RecordsDue(Len(router))
        /\ Len(Records) = RecordsDue(Len(router))
        /\ \A n \in DOMAIN router :
              Reports(router[n]) =>
                  \A m \in DOMAIN router[n].methods :
                      LET rec == Records[RecordsDue(n - 1) + m] IN
                      /\ rec.Method = router[n].methods[m]
                      /\ rec.Path = router[n].tpl[1]

\* a route without methods or without a path template precedes a route
\* with two methods, and both records of the latter were extracted
C15_Witness ==
    /\ spec # <<>>
    /\ Len(router) = 2
    /\ ~Reports(router[1])
    /\ Len(router[2].methods) = 2
    /\ Len(heap) = 2
    /\ Records[1].Method = "GET" /\ Records[2].Method = "POST"
    /\ Records[1].Path = UsersPath

\* the segments of a path: the maximal runs of tokens between slashes, joined
Segments(path) ==
    {Join(SubSeq(path, a, b)) : <<a, b>> \in
        {ab \in (1..Len(path)) \X (1..Len(path)) :
            /\ ab[1] <= ab[2]
            /\ \A k \in ab[1]..ab[2] : path[k] # "/"
            /\ (ab[1] = 1 \/ path[ab[1] - 1] = "/")
            /\ (ab[2] = Len(path) \/ path[ab[2] + 1] = "/")}}

\* C16 as stated: every operation carries exactly one tag: Users when its
\* path has the segment "users", else Health when its path contains
\* "health", else API.
C16_TagBySegment ==
    spec # <<>> =>
        \A i \in DOMAIN heap :
            heap[i].Tags =
                IF "users" \in Segments(Records[i].Path) THEN <<"Users">>
                ELSE IF Contains(Records[i].Path, <<"health">>) THEN <<"Health">>
                ELSE <<"API">>

\* C16 amended: every operation carries exactly one tag: Users when its
\* path contains "/users", else Health when its path contains "/health",
\* else API; Users wins when both occur.
C16_TagBySubstring ==
    spec # <<>> =>
        \A i \in DOMAIN heap :
            /\ Len(heap[i].Tags) = 1
            /\ heap[i].Tags =
                  IF Contains(Records[i].Path, <<"/", "users">>) THEN <<"Users">>
                  ELSE IF Contains(Records[i].Path, <<"/", "health">>) THEN <<"Health">>
                  ELSE <<"API">>

\* operations were built for /api/users/health, tagged Users, and for
\* /api/unhealthy, tagged API
C16_Witness ==
    /\ spec # <<>>
    /\ \E i \in DOMAIN heap, j \in DOMAIN heap :
          /\ Records[i].Path = UsersHealthPath /\ heap[i].Tags = <<"Users">>
          /\ Records[j].Path = UnhealthyPath /\ heap[j].Tags = <<"API">>

\* the path without its leading /api
WithoutApi(path) ==
    IF Len(path) >= 2 /\ path[1] = "/" /\ path[2] = "api"
    THEN SubSeq(path, 3, Len(path)) ELSE path

\* the path is /users/{id}, or has it inside, once /api is removed
OnOneUser(path) ==
    \E a \in 1..(Len(WithoutApi(path)) - 3) :
        SubSeq(WithoutApi(path), a, a + 3) = <<"/", "users", "/", "{id}">>

\* the fixed summary of the table row a method and path match, "" when they
\* match none
TableSummary(method, path) ==
    CASE path = HealthPath -> "Health check"
      [] method = "GET" /\ path = UsersPath -> "Get all users"
      [] method = "POST" /\ path = UsersPath -> "Create new user"
      [] method = "GET" /\ OnOneUser(path) -> "Get user by ID"
      [] method = "PUT" /\ OnOneUser(path) -> "Update user"
      [] method = "DELETE" /\ OnOneUser(path) -> "Delete user"
      [] OTHER -> ""

\* C17: the summary of an operation is the fixed text of the table row its
\* method and path match (Health check on /api/health; Get all users and
\* Create new user on /api/users; Get user by ID, Update user and Delete
\* user on a /users/{id} path), and otherwise exactly the method, a space
\* and the path without its /api prefix; PUT, DELETE and PATCH on
\* /api/users and POST and PATCH on /api/users/{id} match no row.
C17_SummaryTable ==
    spec # <<>> =>
        \A i \in DOMAIN heap :
            LET method == Records[i].Method
                path == Records[i].Path
            IN  /\ heap[i].Summary =
                      IF TableSummary(method, path) # "" THEN TableSummary(method, path)
                      ELSE method \o " " \o Join(WithoutApi(path))
                /\ (method = "PUT" /\ path = UsersPath) => heap[i].Summary = "PUT /users"
                /\ (method = "DELETE" /\ path = UsersPath) => heap[i].Summary = "DELETE /users"
                /\ (method = "POST" /\ path = UserIdPath) => heap[i].Summary = "POST /users/{id}"
                /\ (method = "GET" /\ path = UserIdPath) => heap[i].Summary = "Get user by ID"
                /\ (method = "GET" /\ path = ItemIdPath) => heap[i].Summary = "GET /items/{id}"

\* operations were built for PUT /api/users, summarised generically, and
\* for PUT /api/users/{id}, summarised by its table row
C17_Witness ==
    /\ spec # <<>>
    /\ \E i \in DOMAIN heap, j \in DOMAIN heap :
          /\ Records[i].Method = "PUT" /\ Records[i].Path = UsersPath
          /\ heap[i].Summary = "PUT /users"
          /\ Records[j].Method = "PUT" /\ Records[j].Path = UserIdPath
          /\ heap[j].Summary = "Update user"

(***************************************************************************)
(* Properties of the assembled document                                    *)
(***************************************************************************)
\* the models generateSchemas derives a schema for
ModelRegistry == {"User"}

PathsAfter(n) == generatePathsFrom(SubSeq(Records, 1, n), 1, <<>>, <<>>).Paths

\* the PathItem of a path in a paths map, nil slots when the path is absent
ItemOf(paths, path) == IF path \in DOMAIN paths THEN paths[path] ELSE PathItem

\* C19: inserting record n puts the operation built from it in the slot of
\* its method under its path, creating the PathItem when the path is new,
\* and leaves the other slots of that path and every other path as they
\* were; the document holds the map the last insertion left, so a path with
\* a GET and a POST record holds both operations in one PathItem.
C19_InsertFrame ==
    spec # <<>> =>
        /\ spec[1].Paths = PathsAfter(Len(Records))
        /\ \A n \in DOMAIN Records :
              LET before == PathsAfter(n - 1)
                  after == PathsAfter(n)
                  rec == Records[n]
              IN  /\ DOMAIN after = DOMAIN before \cup {rec.Path}
                  /\ \A p \in DOMAIN before : p # rec.Path => after[p] = before[p]
                  /\ \A m \in Verbs :
                        Slot(after[rec.Path], m) =
                            IF m = rec.Method THEN n
                            ELSE Slot(ItemOf(before, rec.Path), m)
                  /\ heap[n] = generateOperation(rec)

\* /api/users holds a GET and a POST operation in one PathItem, next to
\* another path
C19_Witness ==
    /\ spec # <<>>
    /\ UsersPath \in DOMAIN spec[1].Paths
    /\ spec[1].Paths[UsersPath].Get # 0
    /\ spec[1].Paths[UsersPath].Post # 0
    /\ spec[1].Paths[UsersPath].Get # spec[1].Paths[UsersPath].Post
    /\ Cardinality(DOMAIN spec[1].Paths) = 2

\* C20 as stated: a returned document has exactly one server, built from
\* the host and the base path of the info argument.
C20_ServerFromHostAndBasePath ==
    spec # <<>> =>
        /\ Len(spec[1].Servers) = 1
        /\ spec[1].Servers[1].URL = "http://" \o info.Host \o info.BasePath

\* C20 amended: a returned document has exactly one server, described as
\* the development server, whose URL is "http://" followed by the host of
\* the info argument; the base path of the info argument appears in
\* info.basePath only and has no part in the server.
C20_ServerFromHost ==
    spec # <<>> =>
        /\ Len(spec[1].Servers) = 1
        /\ spec[1].Servers[1].URL = "http://" \o info.Host
        /\ spec[1].Servers[1].Description = "Development server"
        /\ spec[1].Info.BasePath = info.BasePath
        /\ spec[1].Servers = newSpec([info EXCEPT !.BasePath = "/v2"]).Servers

\* a document generated for the host api.example.com:8080 over a router
\* with routes
C20_Witness ==
    /\ spec # <<>>
    /\ info.Host = "api.example.com:8080"
    /\ spec[1].Servers[1].URL = "http://api.example.com:8080"
    /\ DOMAIN spec[1].Paths # {}

(***************************************************************************)
(* generatePaths over the same records in different orders                 *)
(***************************************************************************)
\* methods and paths of the records handed to generatePaths
RecordMethods == {"GET", "POST", "PATCH"}
RecordPaths == {UsersPath, UserIdPath, HealthPath}

RouteInfos == {RouteInfo(method, path) : method \in RecordMethods, path \in RecordPaths}

PathsInit ==
    /\ pc = "ready"
    /\ info = DefaultInfo
    /\ router = <<>>
    /\ routeInfos \in UNION {[1..n -> RouteInfos] : n \in 0..MaxRecords}
    /\ spec = <<>>
    /\ heap = <<>>
    /\ err = "nil"
    /\ calls = 0
    /\ SchemaIdle
    /\ RestIdle

\* generatePaths(spec, routes) on a fresh SwaggerSpec
GeneratePaths ==
    LET res == generatePaths(generateSchemas(newSpec(info)), routeInfos) IN
    /\ spec = <<>>
    /\ calls < MaxCalls
    /\ calls' = calls + 1
    /\ spec' = <<res.doc>>
    /\ heap' = res.ops
    /\ UNCHANGED <<pc, info, router, routeInfos, err, schemaVars, restVars>>

\* the registry yields the same records with two neighbours exchanged, and
\* generatePaths runs on a fresh SwaggerSpec over that order
Reorder(i) ==
    LET swapped == [routeInfos EXCEPT ![i] = routeInfos[i + 1], ![i + 1] = routeInfos[i]]
        res == generatePaths(generateSchemas(newSpec(info)), swapped)
    IN  /\ spec # <<>>
        /\ calls < MaxCalls
        /\ i \in 1..(Len(routeInfos) - 1)
        /\ calls' = calls + 1
        /\ routeInfos' = swapped
        /\ spec' = <<res.doc>>
        /\ heap' = res.ops
        /\ UNCHANGED <<pc, info, router, err, schemaVars, restVars>>

ReorderAny == \E i \in 1..MaxRecords : Reorder(i)

PathsNext == GeneratePaths \/ ReorderAny

PathsSpec == PathsInit /\ [][PathsNext]_vars

\* C21: running generatePaths over the same records in another order gives
\* the same paths map: the same keys and, in every verb slot, the same
\* operation.
C21_OrderInsensitive ==
    [][ReorderAny =>
          /\ DOMAIN spec'[1].Paths = DOMAIN spec[1].Paths
          /\ Marshal(spec'[1], heap').paths = Marshal(spec[1], heap).paths]_vars

\* three different records, two of them on one path, have been assembled
\* in an order other than the first one
C21_Witness ==
    /\ spec # <<>>
    /\ calls = 2
    /\ Len(routeInfos) = 3
    /\ routeInfos[1].Path = routeInfos[3].Path
    /\ routeInfos[1].Method = "POST" /\ routeInfos[3].Method = "GET"
    /\ routeInfos[2].Path # routeInfos[1].Path
    /\ spec[1].Paths[routeInfos[1].Path].Get = 3
    /\ spec[1].Paths[routeInfos[1].Path].Post = 1

(***************************************************************************)
(* Properties of GenerateSwagger's failures                                *)
(***************************************************************************)
\* the router holds a route the walk skips
SkipsARoute == \E n \in DOMAIN router : ~Reports(router[n])

Printed == {stdout[k] : k \in DOMAIN stdout}

\* C23: SaveSwaggerSpec returns the serialization or I/O error as it got it
\* and writes nothing when serialization failed; after a failed save the
\* command reports that error and never prints that the documentation was
\* generated or saved; the save is attempted only after GenerateSwagger
\* returned a document and no error.
C23_SaveFailure ==
    /\ [](saveErr \in {"nil", MarshalError, WriteError} \cup OpenErrors)
    /\ [][(SaveSwaggerSpec /\ saveErr' = MarshalError) => file' = file]_vars
    /\ []((saveErr # "nil") =>
            /\ SuccessLine \notin Printed
            /\ SavedLine \notin Printed
            /\ (docsPc \in {"returned", "exited"}) =>
                  /\ stdout[Len(stdout)] = FailureLine("saving", saveErr)
                  /\ Len(stdout) = 2)
    /\ []((docsPc \in {"generated", "saved"} \/ saveErr # "nil" \/ SavedLine \in Printed)
            => (err = "nil" /\ spec # <<>> /\ calls = 1))

\* the command ended after a serialization failure with the earlier file
\* still in place and the failure reported
C23_Witness ==
    /\ docsPc \in {"returned", "exited"}
    /\ saveErr = MarshalError
    /\ file = <<OldFile>>
    /\ stdout[Len(stdout)] = FailureLine("saving", MarshalError)

(***************************************************************************)
(* The /swagger.json endpoint: requests served concurrently over the one   *)
(* router, each in its own goroutine running the handler of                *)
(* setupSwaggerRoutes                                                      *)
(***************************************************************************)
Requests == 1..MaxRequests

\* a SwaggerSpec address shared by every request, as a package-level document would be
specOfShared(r) == 1

\* the address of the SwaggerSpec a request allocates with spec := &SwaggerSpec{...}:
\* a fresh one for each call
specOf(r) == r

ServeInit ==
    /\ info \in Infos
    /\ pc = "ready"
    /\ router = AppRouter
    /\ routeInfos = <<>>
    /\ spec = <<>>
    /\ heap = <<>>
    /\ err = "nil"
    /\ calls = 0
    /\ SchemaIdle
    /\ DocsIdle
    /\ LogIdle
    /\ LoggerIdle
    /\ ChainIdle
    /\ MakeIdle
    /\ requests = [r \in Requests |-> [pc |-> "idle", routes |-> <<>>, i |-> 0]]
    /\ docs = <<>>
    /\ responses = [r \in Requests |-> <<>>]

\* the handler is entered and GenerateSwagger allocates its document
ServeNewSpec(r) ==
    /\ requests[r].pc = "idle"
    /\ docs' = (specOf(r) :> [doc |-> newSpec(info), ops |-> <<>>])
               @@ [a \in DOMAIN docs \ {specOf(r)} |-> docs[a]]
    /\ requests' = [requests EXCEPT ![r].pc = "extract"]
    /\ UNCHANGED <<swaggerVars, schemaVars, docsVars, logVars, responses, loggerVars, chainVars, makeVars>>

\* routes := extractRoutes(router)
ServeExtractRoutes(r) ==
    /\ requests[r].pc = "extract"
    /\ requests' = [requests EXCEPT ![r].pc = "schemas", ![r].routes = extractRoutes(router)]
    /\ UNCHANGED <<swaggerVars, schemaVars, docsVars, logVars, docs, responses, loggerVars, chainVars, makeVars>>

\* generateSchemas(spec), and the handler's 500 answer when it fails
ServeGenerateSchemas(r) ==
    /\ requests[r].pc = "schemas"
    /\ IF generateSchemasErr # "nil"
       THEN /\ requests' = [requests EXCEPT ![r].pc = "done"]
            /\ responses' = [responses EXCEPT ![r] = <<[status |-> 500]>>]
            /\ docs' = docs
       ELSE /\ requests' = [requests EXCEPT ![r].pc = "paths", ![r].i = 1]
            /\ docs' = [docs EXCEPT ![specOf(r)].doc = generateSchemas(@)]
            /\ responses' = responses
    /\ UNCHANGED <<swaggerVars, schemaVars, docsVars, logVars, loggerVars, chainVars, makeVars>>

\* one iteration of the loop of generatePaths(spec, routes)
ServeGeneratePath(r) ==
    LET req == requests[r]
        d == docs[specOf(r)]
        step == generatePathsFrom(SubSeq(req.routes, 1, req.i), req.i, d.doc.Paths, d.ops)
    IN  /\ req.pc = "paths"
        /\ req.i <= Len(req.routes)
        /\ docs' = [docs EXCEPT ![specOf(r)] =
                        [doc |-> [d.doc EXCEPT !.Paths = step.Paths], ops |-> step.ops]]
        /\ requests' = [requests EXCEPT ![r].i = req.i + 1]
        /\ UNCHANGED <<swaggerVars, schemaVars, docsVars, logVars, responses, loggerVars, chainVars, makeVars>>

\* GenerateSwagger returns and the handler runs json.NewEncoder(w).Encode(spec)
ServeEncode(r) ==
    LET req == requests[r]
        d == docs[specOf(r)]
    IN  /\ req.pc = "paths"
        /\ req.i > Len(req.routes)
        /\ IF generatePathsErr # "nil"
           THEN responses' = [responses EXCEPT ![r] = <<[status |-> 500]>>]
           ELSE responses' = [responses EXCEPT ![r] =
                                 <<[status |-> 200, body |-> Marshal(d.doc, d.ops)]>>]
        /\ requests' = [requests EXCEPT ![r].pc = "done"]
        /\ UNCHANGED <<swaggerVars, schemaVars, docsVars, logVars, docs, loggerVars, chainVars, makeVars>>

ServeNext ==
    \E r \in Requests :
        \/ ServeNewSpec(r)
        \/ ServeExtractRoutes(r)
        \/ ServeGenerateSchemas(r)
        \/ ServeGeneratePath(r)
        \/ ServeEncode(r)

ServeSpec == ServeInit /\ [][ServeNext]_vars

\* the document one sequential call of GenerateSwagger returns, serialized
SequentialBody ==
    LET res == GenerateSwaggerResult(router, info) IN Marshal(res.spec[1], res.heap)

\* C24: requests to /swagger.json served concurrently each build a document of
\* their own (no two requests hold the same SwaggerSpec), no step of any
\* request changes the router or the document of another request, and under
\* every interleaving each response is the document one sequential call
\* produces.
C24_ConcurrentRequests ==
    /\ [](\A r1, r2 \in Requests : r1 # r2 => specOf(r1) # specOf(r2))
    /\ [](\A r \in Requests : responses[r] # <<>> =>
            /\ responses[r][1].status = 200
            /\ responses[r][1].body = SequentialBody)
    /\ [][/\ router' = router
          /\ \A r \in Requests :
                (requests'[r] = requests[r] /\ specOf(r) \in DOMAIN docs)
                    => (specOf(r) \in DOMAIN docs' /\ docs'[specOf(r)] = docs[specOf(r)])]_vars

\* one request has answered while the other is in the middle of its loop over
\* the route records
C24_Witness ==
    /\ responses[2] # <<>>
    /\ responses[2][1].body = SequentialBody
    /\ requests[1].pc = "paths"
    /\ requests[1].i = 4
    /\ DOMAIN docs[specOf(1)].doc.Paths # {}

(***************************************************************************)
(* The HTTP request/response log of LoggingMiddleware                      *)
(***************************************************************************)
\* header names as they reach the middleware, in several spellings
HeaderKeys == {"Authorization", "cookie", "SET-COOKIE", "X-Api-Key", "X-Auth-Token",
               "Content-Type", "Accept"}

\* the []string a header name maps to
ValueLists == {<<>>, <<"a">>, <<"b">>, <<"a", "b">>, <<"b", "a">>}

\* http.Header values with at most MaxHeaders names
Headers ==
    UNION {[K -> ValueLists] : K \in {S \in SUBSET HeaderKeys : Cardinality(S) <= MaxHeaders}}

\* the headers the wrapped handler left on the response writer
ResponseHeaders ==
    {<<>>, ("Set-Cookie" :> <<"a", "b">>) @@ ("Content-Type" :> <<"b">>)}

\* http.Header.Get: the first value stored under the canonical name, or ""
HeaderGet(h, key) == IF key \in DOMAIN h /\ h[key] # <<>> THEN h[key][1] ELSE ""

\* a filter that looks the name up as it is spelled
filterHeadersExactCase(headers) ==
    LET sensitiveHeaders == {"authorization", "cookie", "set-cookie", "x-api-key", "x-auth-token"}
        kept == {key \in DOMAIN headers : key \in sensitiveHeaders \/ Len(headers[key]) > 0}
    IN  [key \in kept |-> IF key \in sensitiveHeaders THEN "[REDACTED]" ELSE headers[key][1]]

filterHeaders(headers) ==
    LET sensitiveHeaders == {"authorization", "cookie", "set-cookie", "x-api-key", "x-auth-token"}
        kept == {key \in DOMAIN headers :
                    ToLower(key) \in sensitiveHeaders \/ Len(headers[key]) > 0}
    IN  [key \in kept |->
            IF ToLower(key) \in sensitiveHeaders THEN "[REDACTED]" ELSE headers[key][1]]

shouldSkipLogging(path) ==
    \/ HasPrefix(path, <<"/", "swagger", "/">>) /\ path[Len(path)] # ".json"
    \/ path \in {<<"/", "favicon.ico">>, <<"/", "robots.txt">>, <<"/", "health">>, HealthPath}

\* the entries logHTTPRequest hands to the logger: the request/response entry
\* at the level of the status code, then the summary line
logHTTPRequest(e) ==
    LET requestData == [path |-> e.Path,
                        headers |-> filterHeaders(e.Header),
                        content_type |-> HeaderGet(e.Header, "Content-Type")]
        responseData == [status_code |-> e.StatusCode,
                         headers |-> filterHeaders(e.RespHeader),
                         content_type |-> HeaderGet(e.RespHeader, "Content-Type")]
        logData == [type |-> "http_request", request |-> requestData, response |-> responseData]
    IN  << IF e.StatusCode >= 500
             THEN [level |-> "ERROR", message |-> "HTTP Request - Server Error", data |-> logData]
           ELSE IF e.StatusCode >= 400
             THEN [level |-> "WARN", message |-> "HTTP Request - Client Error", data |-> logData]
           ELSE IF e.StatusCode >= 300
             THEN [level |-> "INFO", message |-> "HTTP Request - Redirect", data |-> logData]
           ELSE [level |-> "INFO", message |-> "HTTP Request", data |-> logData],
           [level |-> IF e.StatusCode >= 400 THEN "WARN" ELSE "DEBUG",
            message |-> "summary",
            data |-> [type |-> "summary"]] >>

LogInit ==
    /\ info = DefaultInfo
    /\ SwaggerIdle
    /\ SchemaIdle
    /\ DocsIdle
    /\ ServeIdle
    /\ LoggerIdle
    /\ ChainIdle
    /\ MakeIdle
    /\ \E path \in {UsersPath, HealthPath}, h \in Headers, rh \in ResponseHeaders,
          code \in {200, 301, 404, 500} :
          exchange = <<[Path |-> path, Header |-> h, StatusCode |-> code, RespHeader |-> rh,
                        Served |-> FALSE]>>
    /\ httpLog = <<>>

\* LoggingMiddleware around the handler's answer
LoggingMiddleware ==
    /\ exchange # <<>>
    /\ ~exchange[1].Served
    /\ exchange' = <<[exchange[1] EXCEPT !.Served = TRUE]>>
    /\ httpLog' = IF shouldSkipLogging(exchange[1].Path)
                  THEN httpLog
                  ELSE httpLog \o logHTTPRequest(exchange[1])
    /\ UNCHANGED <<swaggerVars, schemaVars, docsVars, serveVars, loggerVars, chainVars, makeVars>>

LogNext == LoggingMiddleware

LogSpec == LogInit /\ [][LogNext]_vars

SensitiveNames == {"authorization", "cookie", "set-cookie", "x-api-key", "x-auth-token"}

IsSensitive(key) == ToLower(key) \in SensitiveNames

\* the headers that differ from h only in the values of sensitive headers
SensitiveVariants(h) ==
    {h2 \in [DOMAIN h -> ValueLists] : \A k \in DOMAIN h : ~IsSensitive(k) => h2[k] = h[k]}

Redacted(h, logged) ==
    /\ DOMAIN logged \subseteq DOMAIN h
    /\ \A k \in DOMAIN h :
          /\ IsSensitive(k) => (k \in DOMAIN logged /\ logged[k] = "[REDACTED]")
          /\ (~IsSensitive(k) /\ h[k] # <<>>) => (k \in DOMAIN logged /\ logged[k] = h[k][1])

\* C25: in the request/response entry the value logged for a sensitive header
\* (Authorization, Cookie, Set-Cookie, X-API-Key, X-Auth-Token, in any
\* spelling) is "[REDACTED]", on the request side and on the response side; a
\* request that differs only in the values of sensitive headers gives the same
\* logged header map; a non-sensitive header is logged with its first value.
C25_SensitiveRedacted ==
    (exchange # <<>> /\ httpLog # <<>>) =>
        LET e == exchange[1]
            d == httpLog[1].data
        IN  /\ Redacted(e.Header, d.request.headers)
            /\ Redacted(e.RespHeader, d.response.headers)
            /\ \A h2 \in SensitiveVariants(e.Header) :
                  logHTTPRequest([e EXCEPT !.Header = h2])[1].data.request.headers
                      = d.request.headers

\* a request with an Authorization header and an Accept header of two values
\* has been logged, with a Set-Cookie header on the response
C25_Witness ==
    /\ exchange # <<>>
    /\ httpLog # <<>>
    /\ DOMAIN exchange[1].Header = {"Authorization", "Accept"}
    /\ exchange[1].Header["Authorization"] = <<"a", "b">>
    /\ exchange[1].Header["Accept"] = <<"b", "a">>
    /\ httpLog[1].data.request.headers["Authorization"] = "[REDACTED]"
    /\ httpLog[1].data.request.headers["Accept"] = "b"
    /\ "Set-Cookie" \in DOMAIN exchange[1].RespHeader
    /\ httpLog[1].data.response.headers["Set-Cookie"] = "[REDACTED]"

(***************************************************************************)
(* The logger: Logger.log with stdout, file or database storage            *)
(***************************************************************************)
Levels == {"debug", "info", "warn", "error"}

\* the levels map of shouldLog; a level it does not hold reads as 0
LevelRank(level) ==
    CASE level = "debug" -> 0
      [] level = "info" -> 1
      [] level = "warn" -> 2
      [] level = "error" -> 3
      [] OTHER -> 0

shouldLog(l, level) == LevelRank(level) >= LevelRank(l.level)

\* NewLogger(level, format, storage); fileOk tells whether the log file could be opened
NewLogger(level, format, storage, fileOk) ==
    [level |-> level, format |-> format, storage |-> storage,
     writer |-> CASE storage = "file" -> IF fileOk THEN <<"file">> ELSE <<"stdout">>
                  [] storage = "db" -> <<>>
                  [] OTHER -> <<"stdout">>]

\* the line logToWriter builds from an entry
FormatEntry(l, entry) ==
    [format |-> IF l.format = "json" THEN "json" ELSE "text",
     level |-> entry.Level, message |-> entry.Message]

logToWriter(l, o, entry) ==
    IF l.writer # <<>>
    THEN [o EXCEPT ![l.writer[1]] = Append(@, FormatEntry(l, entry))]
    ELSE o

\* a database fallback that writes to whatever writer the logger holds
logToDatabaseKeepWriter(l, handle, table, o, entry, created) ==
    IF handle = "nil"
    THEN [logger |-> l, table |-> table, out |-> logToWriter(l, o, entry)]
    ELSE IF ~created
    THEN [logger |-> l, table |-> table,
          out |-> logToWriter(l, [o EXCEPT !.stderr = Append(@, "Failed to write log to database")],
                              entry)]
    ELSE [logger |-> l, table |-> Append(table, entry), out |-> o]

\* created: whether database.DB.Create(&entry) succeeded
logToDatabase(l, handle, table, o, entry, created) ==
    LET onStdout == [l EXCEPT !.writer = <<"stdout">>] IN
    IF handle = "nil"
    THEN [logger |-> onStdout, table |-> table, out |-> logToWriter(onStdout, o, entry)]
    ELSE IF ~created
    THEN [logger |-> onStdout, table |-> table,
          out |-> logToWriter(onStdout,
                              [o EXCEPT !.stderr = Append(@, "Failed to write log to database")],
                              entry)]
    ELSE [logger |-> l, table |-> Append(table, entry), out |-> o]

LoggerInit ==
    /\ info = DefaultInfo
    /\ SwaggerIdle
    /\ SchemaIdle
    /\ DocsIdle
    /\ ServeIdle
    /\ LogIdle
    /\ ChainIdle
    /\ MakeIdle
    /\ \E level \in {"debug", "warn"}, format \in {"json", "text"},
          storage \in {"db", "stdout", "file"}, fileOk \in BOOLEAN :
          logger = NewLogger(level, format, storage, fileOk)
    /\ dbHandle \in {"nil", "open"}
    /\ logsTable = <<>>
    /\ out = [stdout |-> <<>>, stderr |-> <<>>, file |-> <<>>]
    /\ logCalls = <<>>

\* l.log(level, message, context); the message is the number of the call
Log(level, created) ==
    LET message == Len(logCalls) + 1
        entry == [Level |-> level, Message |-> message]
        res == logToDatabase(logger, dbHandle, logsTable, out, entry, created)
    IN  /\ Len(logCalls) < MaxLogCalls
        /\ logCalls' = Append(logCalls, [level |-> level, message |-> message,
                                         db |-> IF dbHandle = "nil" THEN "nil"
                                                ELSE IF created THEN "created" ELSE "failed"])
        /\ IF ~shouldLog(logger, level)
           THEN UNCHANGED <<logger, logsTable, out, chainVars, makeVars>>
           ELSE IF logger.storage = "db"
           THEN /\ logger' = res.logger
                /\ logsTable' = res.table
                /\ out' = res.out
           ELSE /\ out' = logToWriter(logger, out, entry)
                /\ UNCHANGED <<logger, logsTable, chainVars, makeVars>>
        /\ UNCHANGED <<swaggerVars, schemaVars, docsVars, serveVars, logVars, dbHandle, chainVars, makeVars>>

LoggerNext == \E level \in {"debug", "info", "error"}, created \in BOOLEAN : Log(level, created)

LoggerSpec == LoggerInit /\ [][LoggerNext]_vars

\* how many rows of the logs table, and how many lines of stdout, carry a message
InTable(m) == Cardinality({i \in 1..Len(logsTable) : logsTable[i].Message = m})
OnStdout(m) == Cardinality({i \in 1..Len(out.stdout) : out.stdout[i].message = m})

\* C26: with database storage, an admitted entry whose call found the handle
\* nil or whose insert failed is written to stdout and not to the table, an
\* entry whose insert succeeded is in the table and not on stdout, each
\* exactly once, a call below the logger's level leaves no record, and the
\* writer is not nil once a fallback write has happened.
C26_DatabaseFallback ==
    (logger # <<>> /\ logger.storage = "db") =>
        /\ \A i \in 1..Len(logCalls) :
              LET c == logCalls[i] IN
              IF ~(LevelRank(c.level) >= LevelRank(logger.level))
              THEN InTable(c.message) = 0 /\ OnStdout(c.message) = 0
              ELSE IF c.db = "created"
              THEN InTable(c.message) = 1 /\ OnStdout(c.message) = 0
              ELSE InTable(c.message) = 0 /\ OnStdout(c.message) = 1
        /\ out.file = <<>>
        /\ (\E i \in 1..Len(logCalls) :
                /\ LevelRank(logCalls[i].level) >= LevelRank(logger.level)
                /\ logCalls[i].db # "created") => logger.writer = <<"stdout">>

\* three calls on a database logger at level warn whose handle is open: a
\* debug call that is filtered, an error call whose insert failed and an error
\* call whose insert succeeded
C26_Witness ==
    /\ logger # <<>>
    /\ logger.storage = "db"
    /\ logger.level = "warn"
    /\ dbHandle = "open"
    /\ Len(logCalls) = 3
    /\ logCalls[1].level = "debug"
    /\ logCalls[2].level = "error" /\ logCalls[2].db = "failed"
    /\ logCalls[3].level = "error" /\ logCalls[3].db = "created"
    /\ Len(out.stdout) = 1 /\ out.stdout[1].message = 2
    /\ Len(logsTable) = 1 /\ logsTable[1].Message = 3

(***************************************************************************)
(* MiddlewareChain and the middleware functions of the router              *)
(***************************************************************************)
MiddlewareNames == {"RequestID", "CORS", "Logging"}

\* the chain SetupRoutes hands to router.Use
RouterChain == <<"RequestID", "CORS", "Logging">>

\* the handler the chain wraps
FinalHandler == <<"handler">>

\* a handler is the sequence of the functions it nests, outermost first:
\* middleware(next) is the middleware followed by next
Wrap(middleware, next) == <<middleware>> \o next

\* a chain whose loop runs from the first middleware to the last
RECURSIVE MiddlewareChainAscending(_, _)
MiddlewareChainAscending(ms, final) ==
    IF ms = <<>> THEN final ELSE MiddlewareChainAscending(Tail(ms), Wrap(Head(ms), final))

\* for i := len(middlewares) - 1; i >= 0; i-- { final = middlewares[i](final) }
RECURSIVE MiddlewareChain(_, _)
MiddlewareChain(ms, final) ==
    IF ms = <<>> THEN final
    ELSE MiddlewareChain(SubSeq(ms, 1, Len(ms) - 1), Wrap(ms[Len(ms)], final))

\* http.Header.Set
HeaderSet(h, key, value) == (key :> <<value>>) @@ [k \in DOMAIN h \ {key} |-> h[k]]

CORSHeaders(h) ==
    HeaderSet(HeaderSet(HeaderSet(h,
        "Access-Control-Allow-Origin", "*"),
        "Access-Control-Allow-Methods", "GET, POST, PUT, DELETE, OPTIONS"),
        "Access-Control-Allow-Headers", "Content-Type, Authorization, X-Requested-With")

Enter(who) == [who |-> who, what |-> "enter"]
Return(who) == [who |-> who, what |-> "return"]

ChainInit ==
    /\ info = DefaultInfo
    /\ SwaggerIdle
    /\ SchemaIdle
    /\ DocsIdle
    /\ ServeIdle
    /\ LogIdle
    /\ LoggerIdle
    /\ MakeIdle
    /\ middlewares \in UNION {[1..n -> MiddlewareNames] : n \in 0..MaxChain}
    /\ handler = <<>>
    /\ depth = 0
    /\ phase = "build"
    /\ trace = <<>>
    /\ \E method \in {"GET", "OPTIONS"}, path \in {UsersPath, HealthPath} :
          httpReq = [Method |-> method, Path |-> path, Header |-> <<>>]
    /\ httpResp = [StatusCode |-> 0, Header |-> <<>>, by |-> ""]

\* MiddlewareChain(middlewares...)(final)
BuildChain ==
    /\ phase = "build"
    /\ handler' = MiddlewareChain(middlewares, FinalHandler)
    /\ phase' = "call"
    /\ UNCHANGED <<swaggerVars, schemaVars, docsVars, serveVars, logVars, loggerVars,
                   middlewares, depth, trace, httpReq, httpResp, makeVars>>

\* ServeHTTP of the next handler of the nest is called: the code of that
\* handler up to its own call of next.ServeHTTP, or up to its return
ServeHTTP ==
    LET who == handler[depth + 1] IN
    /\ phase = "call"
    /\ depth < Len(handler)
    /\ depth' = depth + 1
    /\ trace' = Append(trace, Enter(who))
    /\ CASE who = "RequestID" ->
              /\ httpReq' = [httpReq EXCEPT !.Header = HeaderSet(@, "X-Request-ID", "id")]
              /\ httpResp' = [httpResp EXCEPT !.Header = HeaderSet(@, "X-Request-ID", "id")]
              /\ phase' = "call"
         [] who = "CORS" ->
              /\ httpReq' = httpReq
              /\ IF httpReq.Method = "OPTIONS"
                 THEN /\ httpResp' = [StatusCode |-> IF httpResp.StatusCode = 0 THEN 200
                                                      ELSE httpResp.StatusCode,
                                      Header |-> CORSHeaders(httpResp.Header),
                                      by |-> IF httpResp.StatusCode = 0 THEN "CORS"
                                             ELSE httpResp.by]
                      /\ phase' = "return"
                 ELSE /\ httpResp' = [httpResp EXCEPT !.Header = CORSHeaders(@)]
                      /\ phase' = "call"
         [] who = "Logging" ->
              /\ UNCHANGED <<httpReq, httpResp, makeVars>>
              /\ phase' = "call"
         [] who = "handler" ->
              /\ httpReq' = httpReq
              /\ httpResp' = [httpResp EXCEPT
                                !.StatusCode = IF @ = 0 THEN 200 ELSE @,
                                !.by = IF httpResp.StatusCode = 0 THEN "handler" ELSE @,
                                !.Header = IF httpResp.StatusCode = 0
                                           THEN HeaderSet(@, "Content-Type", "application/json")
                                           ELSE @]
              /\ phase' = "return"
    /\ UNCHANGED <<swaggerVars, schemaVars, docsVars, serveVars, logVars, loggerVars,
                   middlewares, handler, makeVars>>

\* the innermost handler on the stack returns: what it runs after its call of
\* next.ServeHTTP, logHTTPRequest for the logging middleware
ServeReturn ==
    LET who == handler[depth] IN
    /\ phase = "return"
    /\ depth > 0
    /\ depth' = depth - 1
    /\ trace' = Append(trace, Return(who))
    /\ phase' = IF depth = 1 THEN "done" ELSE "return"
    /\ httpLog' = IF who = "Logging" /\ ~shouldSkipLogging(httpReq.Path)
                  THEN httpLog \o logHTTPRequest([Path |-> httpReq.Path,
                                                  Header |-> httpReq.Header,
                                                  StatusCode |-> IF httpResp.StatusCode = 0
                                                                 THEN 200
                                                                 ELSE httpResp.StatusCode,
                                                  RespHeader |-> httpResp.Header,
                                                  Served |-> TRUE])
                  ELSE httpLog
    /\ UNCHANGED <<swaggerVars, schemaVars, docsVars, serveVars, exchange, loggerVars,
                   middlewares, handler, httpReq, httpResp, makeVars>>

ChainNext == BuildChain \/ ServeHTTP \/ ServeReturn

ChainSpec == ChainInit /\ [][ChainNext]_vars

RECURSIVE Reverse(_)
Reverse(s) == IF s = <<>> THEN <<>> ELSE Append(Reverse(Tail(s)), Head(s))

Enters(ms) == [i \in 1..Len(ms) |-> Enter(ms[i])]
Returns(ms) == [i \in 1..Len(ms) |-> Return(Reverse(ms)[i])]

\* the middlewares that run for the request: all of them, or those up to the
\* first CORS middleware when the request is an OPTIONS preflight
Running ==
    IF httpReq.Method = "OPTIONS" /\ \E i \in 1..Len(middlewares) : middlewares[i] = "CORS"
    THEN SubSeq(middlewares, 1,
                CHOOSE i \in 1..Len(middlewares) :
                   /\ middlewares[i] = "CORS"
                   /\ \A j \in 1..(i - 1) : middlewares[j] # "CORS")
    ELSE middlewares

ReachesHandler ==
    ~(httpReq.Method = "OPTIONS" /\ \E i \in 1..Len(middlewares) : middlewares[i] = "CORS")

\* the whole run of a request through MiddlewareChain(m1, ..., mn)(h)
FullTrace ==
    Enters(Running)
    \o (IF ReachesHandler THEN <<Enter("handler"), Return("handler")>> ELSE <<>>)
    \o Returns(Running)

C27_Witness ==
    /\ phase = "done"
    /\ middlewares = RouterChain
    /\ httpReq.Method = "GET"
    /\ httpReq.Path = UsersPath
    /\ trace = <<Enter("RequestID"), Enter("CORS"), Enter("Logging"), Enter("handler"),
                 Return("handler"), Return("Logging"), Return("CORS"), Return("RequestID")>>
    /\ Len(httpLog) = 2

ModelTpl == "internal/templates/model.tpl"
ControllerTpl == "internal/templates/controller.tpl"

ModelNames == {"User", "Post"}

ModelFile(name) == <<"app/models/", name, ".go">>
ControllerFile(name) == <<"app/controllers/", name, "Controller.go">>

\* a file somebody wrote by hand
OldContent == [tpl |-> "", ModelName |-> "", TableName |-> <<>>, complete |-> TRUE]

\* what tpl.Execute writes: the template filled with ModelName and TableName
Rendered(tpl, name, complete) ==
    [tpl |-> tpl, ModelName |-> name, TableName |-> <<ToLower(name), "s">>,
     complete |-> complete]

Skipped(outputPath) == <<"Skipped (already exists): ", outputPath>>
CreateFailed(outputPath) == <<"Error creating file ", outputPath>>
ParseFailed(templatePath) == <<"Error parsing template ", <<templatePath>>>>
ExecuteFailed == <<"Error executing template", <<>>>>

\* a createFileFromTemplate that creates the file without looking for it first
createFileFromTemplateNoStat(fs, o, ok, onErrPanic, templatePath, outputPath, name, createErr, executeErr) ==
    IF templatePath \notin ok
    THEN [files |-> fs, out |-> IF onErrPanic THEN o ELSE Append(o, ParseFailed(templatePath)),
          panicked |-> onErrPanic]
    ELSE IF createErr
    THEN [files |-> fs, out |-> IF onErrPanic THEN o ELSE Append(o, CreateFailed(outputPath)),
          panicked |-> onErrPanic]
    ELSE IF executeErr
    THEN [files |-> (outputPath :> Rendered(templatePath, name, FALSE))
                    @@ [p \in DOMAIN fs \ {outputPath} |-> fs[p]],
          out |-> IF onErrPanic THEN o ELSE Append(o, ExecuteFailed),
          panicked |-> onErrPanic]
    ELSE [files |-> (outputPath :> Rendered(templatePath, name, TRUE))
                    @@ [p \in DOMAIN fs \ {outputPath} |-> fs[p]],
          out |-> o, panicked |-> FALSE]

\* fs: the files, o: the lines printed so far, ok: the templates that parse,
\* onErrPanic: whether an error panics; createErr and executeErr: whether os.Create
\* and tpl.Execute fail
createFileFromTemplate(fs, o, ok, onErrPanic, templatePath, outputPath, name, createErr, executeErr) ==
    IF templatePath \notin ok
    THEN [files |-> fs, out |-> IF onErrPanic THEN o ELSE Append(o, ParseFailed(templatePath)),
          panicked |-> onErrPanic]
    ELSE IF outputPath \in DOMAIN fs
    THEN [files |-> fs, out |-> Append(o, Skipped(outputPath)), panicked |-> FALSE]
    ELSE IF createErr
    THEN [files |-> fs, out |-> IF onErrPanic THEN o ELSE Append(o, CreateFailed(outputPath)),
          panicked |-> onErrPanic]
    ELSE IF executeErr
    THEN [files |-> (outputPath :> Rendered(templatePath, name, FALSE)) @@ fs,
          out |-> IF onErrPanic THEN o ELSE Append(o, ExecuteFailed),
          panicked |-> onErrPanic]
    ELSE [files |-> (outputPath :> Rendered(templatePath, name, TRUE)) @@ fs,
          out |-> o, panicked |-> FALSE]

MakeInit ==
    /\ info = DefaultInfo
    /\ SwaggerIdle
    /\ SchemaIdle
    /\ DocsIdle
    /\ ServeIdle
    /\ LogIdle
    /\ LoggerIdle
    /\ ChainIdle
    /\ \E existing \in SUBSET {ModelFile("User"), ControllerFile("User")} :
          files = [p \in existing |-> OldContent]
    /\ templatesOk \in SUBSET {ModelTpl, ControllerTpl}
    /\ panics \in BOOLEAN
    /\ modelName = ""
    /\ makePc = "idle"
    /\ makes = 0
    /\ makeOut = <<>>

\* the command is run: MakeModel(modelName) is entered
MakeModel(name) ==
    /\ makePc \in {"idle", "done", "panicked"}
    /\ makes < MaxMakes
    /\ makes' = makes + 1
    /\ modelName' = name
    /\ makePc' = "model"
    /\ makeOut' = <<>>
    /\ UNCHANGED <<swaggerVars, schemaVars, docsVars, serveVars, logVars, loggerVars,
                   chainVars, files, templatesOk, panics>>

\* createFileFromTemplate("internal/templates/model.tpl", "app/models/"+modelName+".go", modelName)
CreateModelFile(createErr, executeErr) ==
    LET res == createFileFromTemplate(files, makeOut, templatesOk, panics, ModelTpl,
                                      ModelFile(modelName), modelName, createErr, executeErr)
    IN  /\ makePc = "model"
        /\ files' = res.files
        /\ makeOut' = res.out
        /\ makePc' = IF res.panicked THEN "panicked" ELSE "controller"
        /\ UNCHANGED <<swaggerVars, schemaVars, docsVars, serveVars, logVars, loggerVars,
                       chainVars, templatesOk, panics, modelName, makes>>

\* createFileFromTemplate("internal/templates/controller.tpl",
\*     "app/controllers/"+modelName+"Controller.go", modelName), then the closing line
CreateControllerFile(createErr, executeErr) ==
    LET res == createFileFromTemplate(files, makeOut, templatesOk, panics, ControllerTpl,
                                      ControllerFile(modelName), modelName, createErr,
                                      executeErr)
    IN  /\ makePc = "controller"
        /\ files' = res.files
        /\ makeOut' = IF res.panicked THEN res.out
                      ELSE Append(res.out, <<"Files created successfully!", <<>>>>)
        /\ makePc' = IF res.panicked THEN "panicked" ELSE "done"
        /\ UNCHANGED <<swaggerVars, schemaVars, docsVars, serveVars, logVars, loggerVars,
                       chainVars, templatesOk, panics, modelName, makes>>

MakeNext ==
    \/ \E name \in ModelNames : MakeModel(name)
    \/ \E createErr, executeErr \in BOOLEAN : CreateModelFile(createErr, executeErr)
    \/ \E createErr, executeErr \in BOOLEAN : CreateControllerFile(createErr, executeErr)

MakeSpec == MakeInit /\ [][MakeNext]_vars

CreatesModel == \E createErr, executeErr \in BOOLEAN : CreateModelFile(createErr, executeErr)
CreatesController ==
    \E createErr, executeErr \in BOOLEAN : CreateControllerFile(createErr, executeErr)

FilesKept == \A p \in DOMAIN files : p \in DOMAIN files' /\ files'[p] = files[p]

\* C28 as stated: an existing file is never modified, and whenever the output
\* path exists the call reports the skip.
C28_SkipsWheneverExists ==
    [][/\ FilesKept
       /\ (CreatesModel /\ ModelFile(modelName) \in DOMAIN files)
             => makeOut' = Append(makeOut, Skipped(ModelFile(modelName)))
       /\ (CreatesController /\ ControllerFile(modelName) \in DOMAIN files)
             => Skipped(ControllerFile(modelName)) \in {makeOut'[i] : i \in 1..Len(makeOut')}]_vars

\* C28 amended: no step of MakeModel changes or removes a file that exists;
\* a call whose template parses and whose output path exists reports the
\* skip, for the model file and for the controller file each on its own; a
\* call whose template does not parse ends before it looks at the output
\* path and reports no skip.
C28_ExistingFileKept ==
    [][/\ FilesKept
       /\ (CreatesModel /\ ModelFile(modelName) \in DOMAIN files) =>
             IF ModelTpl \in templatesOk
             THEN makeOut' = Append(makeOut, Skipped(ModelFile(modelName)))
             ELSE Skipped(ModelFile(modelName)) \notin {makeOut'[i] : i \in 1..Len(makeOut')}
       /\ (CreatesController /\ ControllerFile(modelName) \in DOMAIN files) =>
             IF ControllerTpl \in templatesOk
             THEN /\ Skipped(ControllerFile(modelName)) \in {makeOut'[i] : i \in 1..Len(makeOut')}
                  /\ makePc' = "done"
             ELSE Skipped(ControllerFile(modelName)) \notin {makeOut'[i] : i \in 1..Len(makeOut')}]_vars

\* MakeModel("User") has ended over a model file written by hand, which it
\* skipped, and a controller file it created
C28_Witness ==
    /\ makePc = "done"
    /\ modelName = "User"
    /\ makes = 1
    /\ DOMAIN files = {ModelFile("User"), ControllerFile("User")}
    /\ files[ModelFile("User")] = OldContent
    /\ files[ControllerFile("User")] = Rendered(ControllerTpl, "User", TRUE)
    /\ makeOut = <<Skipped(ModelFile("User")), <<"Files created successfully!", <<>>>>>>

(***************************************************************************)
(* Records whose method has no verb slot                                   *)
(***************************************************************************)
\* the Operations allocated while the first n records were inserted
OpsAfter(n) == generatePathsFrom(SubSeq(Records, 1, n), 1, <<>>, <<>>).ops

\* C29: inserting a record whose method is none of GET, POST, PUT, DELETE
\* fills no slot: the PathItem stored under its path afterwards is the one
\* stored before (the empty one when the path was new), the operations
\* already allocated and every other path are unchanged, and the path is a
\* key of the paths map of the document, with an empty PathItem, serialized
\* as an empty object, when no record of that path has a supported verb.
C29_UnsupportedMethod ==
    spec # <<>> =>
        \A n \in DOMAIN Records :
            Records[n].Method \notin {"GET", "POST", "PUT", "DELETE"} =>
                LET before == PathsAfter(n - 1)
                    after == PathsAfter(n)
                    p == Records[n].Path
                IN  /\ DOMAIN after = DOMAIN before \cup {p}
                    /\ after[p] = ItemOf(before, p)
                    /\ \A q \in DOMAIN before : after[q] = before[q]
                    /\ SubSeq(OpsAfter(n), 1, n - 1) = OpsAfter(n - 1)
                    /\ p \in DOMAIN spec[1].Paths
                    /\ (\A m \in DOMAIN Records :
                            Records[m].Path = p => Records[m].Method \notin Verbs)
                          => /\ spec[1].Paths[p] = PathItem
                             /\ DOMAIN Marshal(spec[1], heap).paths[p] = {}

\* generatePaths has run over a GET record, a PATCH record of the same path
\* and a PATCH record of another path: the first path holds the GET
\* operation alone, the second an empty PathItem
C29_Witness ==
    /\ spec # <<>>
    /\ Len(routeInfos) = 3
    /\ routeInfos[1].Method = "GET"
    /\ routeInfos[2].Method = "PATCH"
    /\ routeInfos[2].Path = routeInfos[1].Path
    /\ routeInfos[3].Method = "PATCH"
    /\ routeInfos[3].Path # routeInfos[1].Path
    /\ spec[1].Paths[routeInfos[1].Path] = [PathItem EXCEPT !.Get = 1]
    /\ spec[1].Paths[routeInfos[3].Path] = PathItem

(***************************************************************************)
(* The document of the application's own router                            *)
(***************************************************************************)
\* method and path of the records the claim lists
ListedRecords ==
    { <<"GET", UsersPath>>, <<"POST", UsersPath>>, <<"GET", UserIdPath>>,
      <<"PUT", UserIdPath>>, <<"DELETE", UserIdPath>>, <<"GET", HealthPath>>,
      <<"GET", SwaggerJsonPath>> }

====
